---- MODULE Spec2Model ----
(***************************************************************************)
(* A model of generate_textbook_data.py: the URL tester (URLTester), the   *)
(* metadata parser (GitHubTextbookScanner._parse_textbook_metadata and the *)
(* functions it calls), the listing pass that joins them                   *)
(* (GitHubTextbookScanner.process_tree_data), the run of main around it,   *)
(* and single calls of the helper functions of the parser.                 *)
(*                                                                         *)
(* A Python str is a tuple of characters.  An ASCII character is the       *)
(* one-character string itself; any other character is named by its code   *)
(* point, "U5C0F" for U+5C0F.  The comment next to a literal spells it.    *)
(***************************************************************************)
EXTENDS Integers, Sequences, FiniteSets, TLC

VARIABLES
    \* ---- one run of main ----
    cache_file,    \* the tree cache file textbook-tree-cache.json
    repo_tree,     \* the tree the GitHub Trees API holds for the repository
    main_tree_data, \* main: tree_data, what get_repository_tree returned
    output_file,   \* the data file textbook-data.js
    message,       \* the last message printed about the state of the run
    exit_code,     \* the exit status of the script: <<>> while main runs, <<n>> after
    \* ---- its run of process_tree_data with URL testing ----
    pc,            \* where the run is
    tree_data,     \* the repository listing handed to process_tree_data
    max_workers,   \* URLTester.max_workers
    textbooks,     \* process_tree_data: the entries built by the first pass
    url_test_data, \* process_tree_data: the (github_url, file_path) pairs to test
    futures,       \* test_multiple_urls: one record per submitted task
    results,       \* test_multiple_urls: github_url -> decision
    completed,     \* test_multiple_urls: the progress counter
    head_calls,    \* file_path -> number of HEAD requests issued for it
    \* ---- one call of _parse_textbook_metadata ----
    cpc,           \* where the call is
    c_filename,    \* its argument filename
    c_path,        \* its argument path (<<>> for None)
    c_result,      \* its dictionary result
    memo,          \* the calls that returned before it: filename, path and record
    \* ---- the scanner the run and the calls belong to ----
    config,        \* GitHubTextbookScanner.config
    \* ---- one call of a helper function of the parser ----
    fpc,           \* where the call is
    f_name,        \* the function called
    f_arg,         \* its argument
    f_ret          \* the value it returned

runvars == <<pc, tree_data, max_workers, textbooks, url_test_data, futures,
             results, completed, head_calls>>
mainvars == <<cache_file, repo_tree, main_tree_data, output_file, message, exit_code>>
runvars_but_pc == <<tree_data, max_workers, textbooks, url_test_data, futures, results,
                    completed, head_calls>>
callvars == <<cpc, c_filename, c_path, c_result, memo>>
scanvars == <<config>>
fnvars == <<fpc, f_name, f_arg, f_ret>>
vars == <<mainvars, runvars, callvars, fnvars, scanvars>>
\* What a step of the run, of the parser call, of the helper call leaves alone.
notrun == <<callvars, fnvars, scanvars>>
notstep == <<mainvars, notrun>>
notcall == <<mainvars, runvars, fnvars>>
notfn == <<mainvars, runvars, callvars, scanvars>>

-----------------------------------------------------------------------------
(* Bounds of the model.                                                    *)

\* The listing holds at most MaxFiles entries.
MaxFiles == 3
\* The worker pool is at most MaxWorkers wide.
MaxWorkers == 2
\* A raw publisher name handed to _clean_publisher_name has at most MaxPublisherLen characters.
MaxPublisherLen == 4
\* A grade token or name handed to the grade functions has at most MaxGradeLen characters.
MaxGradeLen == 4

-----------------------------------------------------------------------------
(* Python's str operations, on tuples of characters.                       *)

\* s.startswith(p)
StartsWith(s, p) == Len(p) <= Len(s) /\ SubSeq(s, 1, Len(p)) = p

\* s.endswith(p)
EndsWith(s, p) == Len(p) <= Len(s) /\ SubSeq(s, Len(s) - Len(p) + 1, Len(s)) = p

\* p in s
Contains(s, p) == \E i \in 1..(Len(s) - Len(p) + 1) : SubSeq(s, i, i + Len(p) - 1) = p

\* s.replace(old, new), old not empty: every occurrence, left to right, not overlapping
RECURSIVE Replace(_, _, _)
Replace(s, old, new) ==
    IF Len(s) < Len(old) THEN s
    ELSE IF SubSeq(s, 1, Len(old)) = old
         THEN new \o Replace(SubSeq(s, Len(old) + 1, Len(s)), old, new)
         ELSE <<Head(s)>> \o Replace(Tail(s), old, new)

\* s.split(sep), sep one character: a tuple of at least one part
RECURSIVE Split(_, _)
Split(s, sep) ==
    LET at == {i \in 1..Len(s) : s[i] = sep} IN
    IF at = {} THEN <<s>>
    ELSE LET i == CHOOSE k \in at : \A j \in at : k <= j IN
         <<SubSeq(s, 1, i - 1)>> \o Split(SubSeq(s, i + 1, Len(s)), sep)

\* sep.join(parts)
RECURSIVE Join(_, _)
Join(parts, sep) ==
    IF parts = <<>> THEN <<>>
    ELSE IF Len(parts) = 1 THEN parts[1]
         ELSE parts[1] \o <<sep>> \o Join(Tail(parts), sep)

\* os.path.basename(path): what follows the last "/"
Basename(path) == LET parts == Split(path, "/") IN parts[Len(parts)]

\* The characters the pattern \d matches, among the characters of the model.
Digits == {"0", "1", "2", "3", "4", "5", "6", "7", "8", "9"}

AllDigits(s) == \A i \in 1..Len(s) : s[i] \in Digits

DigitValue(c) ==
    CASE c = "0" -> 0 [] c = "1" -> 1 [] c = "2" -> 2 [] c = "3" -> 3 [] c = "4" -> 4
      [] c = "5" -> 5 [] c = "6" -> 6 [] c = "7" -> 7 [] c = "8" -> 8 [] c = "9" -> 9

\* int(s) of a non-empty run of digits
RECURSIVE IntOf(_)
IntOf(s) ==
    IF s = <<>> THEN 0
    ELSE 10 * IntOf(SubSeq(s, 1, Len(s) - 1)) + DigitValue(s[Len(s)])

\* str.lower() of one character, as re.IGNORECASE folds the letters of ".pdf"
LowerChar(c) == CASE c = "P" -> "p" [] c = "D" -> "d" [] c = "F" -> "f" [] OTHER -> c

Lower(s) == [i \in 1..Len(s) |-> LowerChar(s[i])]

dot_pdf == <<".", "p", "d", "f">>     \* '.pdf'
dot_PDF == <<".", "P", "D", "F">>     \* '.PDF'

\* re.search(r'\.pdf\.\d+$', s), with flags=re.IGNORECASE when ignorecase
SearchPdfPart(s, ignorecase) ==
    \E i \in 1..(Len(s) - 5) :
        /\ (IF ignorecase THEN Lower(SubSeq(s, i, i + 3)) ELSE SubSeq(s, i, i + 3)) = dot_pdf
        /\ s[i + 4] = "."
        /\ AllDigits(SubSeq(s, i + 5, Len(s)))

\* re.search(r'\.(\d+)$', s).start(), 0 when there is no match
SearchPartSuffix(s) ==
    LET at == {i \in 1..(Len(s) - 1) : s[i] = "." /\ AllDigits(SubSeq(s, i + 1, Len(s)))} IN
    IF at = {} THEN 0 ELSE CHOOSE k \in at : \A j \in at : k <= j

-----------------------------------------------------------------------------
(* urllib.parse.quote and the URL templates.                               *)

\* A lone surrogate: str.encode('utf-8') raises UnicodeEncodeError on it.
Surrogate == "UD800"

\* quote() never encodes these (letters, digits and "_.-~"), whatever safe is.
AlwaysSafe ==
    {"a", "b", "c", "d", "e", "f", "g", "h", "i", "j", "k", "l", "m", "n", "o", "p", "q",
     "r", "s", "t", "u", "v", "w", "x", "y", "z", "A", "B", "C", "D", "E", "F", "G", "H",
     "I", "J", "K", "L", "M", "N", "O", "P", "Q", "R", "S", "T", "U", "V", "W", "X", "Y",
     "Z", "_", ".", "-", "~"} \cup Digits

\* The UTF-8 bytes of a character, in upper-case hexadecimal.
Utf8Hex(c) ==
    CASE c = " "     -> <<<<"2", "0">>>>
      [] c = "%"     -> <<<<"2", "5">>>>
      [] c = "/"     -> <<<<"2", "F">>>>
      [] c = "@"     -> <<<<"4", "0">>>>
      [] c = "U5C0F" -> <<<<"E", "5">>, <<"B", "0">>, <<"8", "F">>>>   \* 小
      [] c = "U5B66" -> <<<<"E", "5">>, <<"A", "D">>, <<"A", "6">>>>   \* 学
      [] c = "U8BED" -> <<<<"E", "8">>, <<"A", "F">>, <<"A", "D">>>>   \* 语
      [] c = "U6587" -> <<<<"E", "6">>, <<"9", "6">>, <<"8", "7">>>>   \* 文
      [] c = "U4E00" -> <<<<"E", "4">>, <<"B", "8">>, <<"8", "0">>>>   \* 一
      [] c = "U5927" -> <<<<"E", "5">>, <<"A", "4">>, <<"A", "7">>>>   \* 大

RECURSIVE PercentBytes(_)
PercentBytes(bytes) ==
    IF bytes = <<>> THEN <<>> ELSE <<"%">> \o Head(bytes) \o PercentBytes(Tail(bytes))

\* Whether quote(s) returns: it raises UnicodeEncodeError on a lone surrogate.
CanQuote(s) == \A i \in 1..Len(s) : s[i] # Surrogate

\* urllib.parse.quote(s, safe=safe), for a text it can encode
RECURSIVE Quote(_, _)
Quote(s, safe) ==
    IF s = <<>> THEN <<>>
    ELSE (IF Head(s) \in AlwaysSafe \cup safe THEN <<Head(s)>> ELSE PercentBytes(Utf8Hex(Head(s))))
         \o Quote(Tail(s), safe)

\* quote's default for safe
DefaultSafe == {"/"}

\* URLTester.jsdelivr_template, up to its {}
jsdelivr_template ==
    <<"h", "t", "t", "p", "s", ":", "/", "/", "c", "d", "n", ".", "j", "s", "d", "e", "l",
      "i", "v", "r", ".", "n", "e", "t", "/", "g", "h", "/", "T", "a", "p", "X", "W", "o",
      "r", "l", "d", "/", "C", "h", "i", "n", "a", "T", "e", "x", "t", "b", "o", "o", "k",
      "@", "m", "a", "s", "t", "e", "r", "/">>

\* URLTester.fallback_template, up to its {}
fallback_template ==
    <<"h", "t", "t", "p", "s", ":", "/", "/", "g", "h", "f", "a", "s", "t", ".", "t", "o",
      "p", "/", "h", "t", "t", "p", "s", ":", "/", "/", "r", "a", "w", ".", "g", "i", "t",
      "h", "u", "b", "u", "s", "e", "r", "c", "o", "n", "t", "e", "n", "t", ".", "c", "o",
      "m", "/", "T", "a", "p", "X", "W", "o", "r", "l", "d", "/", "C", "h", "i", "n", "a",
      "T", "e", "x", "t", "b", "o", "o", "k", "/", "m", "a", "s", "t", "e", "r", "/">>

owner == <<"T", "a", "p", "X", "W", "o", "r", "l", "d">>                       \* "TapXWorld"
repo == <<"C", "h", "i", "n", "a", "T", "e", "x", "t", "b", "o", "o", "k">>    \* "ChinaTextbook"

\* GitHubTextbookScanner.raw_base_url
raw_base_url ==
    <<"h", "t", "t", "p", "s", ":", "/", "/", "r", "a", "w", ".", "g", "i", "t", "h", "u",
      "b", "u", "s", "e", "r", "c", "o", "n", "t", "e", "n", "t", ".", "c", "o", "m", "/">>
    \o owner \o <<"/">> \o repo \o <<"/", "m", "a", "s", "t", "e", "r">>

-----------------------------------------------------------------------------
(* GitHubTextbookScanner: configuration.                                   *)

\* config["levels"], as get_default_config builds it
DefaultConfig ==
    [levels |->
        [xiaoxue    |-> [enabled |-> TRUE, ignorePatterns |-> <<>>, showGrades |-> TRUE,  requireGrades |-> FALSE],
         chuzhong   |-> [enabled |-> TRUE, ignorePatterns |-> <<>>, showGrades |-> TRUE,  requireGrades |-> FALSE],
         gaozhong   |-> [enabled |-> TRUE, ignorePatterns |-> <<>>, showGrades |-> TRUE,  requireGrades |-> FALSE],
         daxue      |-> [enabled |-> TRUE, ignorePatterns |-> <<>>, showGrades |-> FALSE, requireGrades |-> FALSE],
         xiaoxue45  |-> [enabled |-> TRUE, ignorePatterns |-> <<>>, showGrades |-> TRUE,  requireGrades |-> FALSE],
         chuzhong45 |-> [enabled |-> TRUE, ignorePatterns |-> <<>>, showGrades |-> TRUE,  requireGrades |-> FALSE]]]

\* The level names of level_mapping.
Xiaoxue == <<"U5C0F", "U5B66">>        \* 小学
Chuzhong == <<"U521D", "U4E2D">>       \* 初中
Gaozhong == <<"U9AD8", "U4E2D">>       \* 高中
Daxue == <<"U5927", "U5B66">>          \* 大学
Xiaoxue45 == <<"U5C0F", "U5B66", "4", "5", "U5B66", "U5236">>   \* 小学45学制
Chuzhong45 == <<"U521D", "U4E2D", "4", "5", "U5B66", "U5236">>  \* 初中45学制

\* A level key that level_mapping.get() did not find (Python's None).
NoKey == "None"

\* get_level_key_from_path(path)
GetLevelKeyFromPath(path) ==
    LET level_name == Split(path, "/")[1] IN
    CASE level_name = Xiaoxue    -> "xiaoxue"
      [] level_name = Chuzhong   -> "chuzhong"
      [] level_name = Gaozhong   -> "gaozhong"
      [] level_name = Daxue      -> "daxue"
      [] level_name = Xiaoxue45  -> "xiaoxue45"
      [] level_name = Chuzhong45 -> "chuzhong45"
      [] OTHER -> NoKey

\* fnmatch.fnmatch(path, pattern), for a pattern without wildcards
FnMatch(path, pattern) == path = pattern

\* should_ignore_path(path, level_key)
ShouldIgnorePath(path, level_key) ==
    IF level_key \notin DOMAIN config.levels THEN FALSE
    ELSE LET level_config == config.levels[level_key] IN
         IF ~level_config.enabled THEN TRUE
         ELSE \E k \in 1..Len(level_config.ignorePatterns) :
                  FnMatch(path, level_config.ignorePatterns[k])

\* should_show_grades_for_level(level_key)
ShouldShowGradesForLevelAlways(level_key) == TRUE
ShouldShowGradesForLevel(level_key) ==
    IF level_key \notin DOMAIN config.levels THEN TRUE
    ELSE config.levels[level_key].showGrades

-----------------------------------------------------------------------------
(* GitHubTextbookScanner: the pattern library.                             *)

unknown == <<"u", "n", "k", "n", "o", "w", "n">>     \* 'unknown'
course == <<"c", "o", "u", "r", "s", "e">>           \* 'course'
UnknownPublisher == <<"U672A", "U77E5", "U51FA", "U7248", "U793E">>   \* 未知出版社

\* A function that returned None instead of a str.
NoneText == <<"<None>">>

\* bool(x), for x a str or None
Truthy(x) == x # NoneText /\ x # <<>>

\* x or default, for x a str or None
OrElse(x, default) == IF Truthy(x) THEN x ELSE default

Ban == <<"U7248">>              \* 版
Chubanshe == <<"U51FA", "U7248", "U793E">>    \* 出版社
She == <<"U793E">>              \* 社
Nianji == <<"U5E74", "U7EA7">>         \* 年级

\* _clean_publisher_name(publisher_raw)
CleanPublisherName(publisher_raw) ==
    IF publisher_raw = <<>> THEN UnknownPublisher
    ELSE IF Contains(publisher_raw, <<"-">>)
    THEN LET parts == Split(publisher_raw, "-")
             first_part == parts[1]
             second_part == parts[Len(parts)]
         IN IF EndsWith(first_part, Ban) THEN first_part
            ELSE IF EndsWith(second_part, Chubanshe) THEN Replace(second_part, Chubanshe, Ban)
            ELSE IF ~EndsWith(second_part, Ban) THEN second_part \o Ban ELSE second_part
    ELSE IF EndsWith(publisher_raw, Chubanshe) THEN Replace(publisher_raw, Chubanshe, Ban)
    ELSE IF ~EndsWith(publisher_raw, Ban) /\ ~EndsWith(publisher_raw, She)
         THEN publisher_raw \o Ban
         ELSE publisher_raw

\* The maximal run of digits of s that starts at position i (empty if s[i] is no digit)
RECURSIVE DigitRun(_, _)
DigitRun(s, i) ==
    IF i <= Len(s) /\ s[i] \in Digits THEN <<s[i]>> \o DigitRun(s, i + 1) ELSE <<>>

\* arabic_to_chinese of _normalize_grade_format: the key's value, NoneText if absent
ArabicToChinese(number) ==
    CASE number = <<"1">> -> <<"U4E00">>   \* 一
      [] number = <<"2">> -> <<"U4E8C">>   \* 二
      [] number = <<"3">> -> <<"U4E09">>   \* 三
      [] number = <<"4">> -> <<"U56DB">>   \* 四
      [] number = <<"5">> -> <<"U4E94">>   \* 五
      [] number = <<"6">> -> <<"U516D">>   \* 六
      [] number = <<"7">> -> <<"U4E03">>   \* 七
      [] number = <<"8">> -> <<"U516B">>   \* 八
      [] number = <<"9">> -> <<"U4E5D">>   \* 九
      [] number = <<"1", "0">> -> <<"U5341">>   \* 十
      [] OTHER -> NoneText

\* _normalize_grade_format(grade)
NormalizeGradeFormat(grade) ==
    LET run == DigitRun(grade, 1) IN
    IF run # <<>> /\ StartsWith(SubSeq(grade, Len(run) + 1, Len(grade)), Nianji)
       /\ ArabicToChinese(run) # NoneText
    THEN ArabicToChinese(run) \o Nianji
    ELSE grade

\* The ideographic numerals of the pattern [一二三四五六七八九十].
ChineseNumerals == {"U4E00", "U4E8C", "U4E09", "U56DB", "U4E94", "U516D", "U4E03", "U516B", "U4E5D", "U5341"}

\* A pattern of grade_patterns or subject_patterns:
\*   "literal"      (text)             "class_then"  [一二三四五六七八九十]text
\*   "digits_then"  \d+text            "then_digits" text\d+
\*   "not_followed" text(?!next)
Literal(text) == [kind |-> "literal", text |-> text, next |-> <<>>]

\* re.search(pattern, name).group(1): the leftmost match, NoneText if none
SearchGroup(pattern, name) ==
    LET n == Len(name)
        t == pattern.text
        At(i) ==   \* the text the pattern matches starting at position i, or NoneText
            CASE pattern.kind = "literal" ->
                    IF StartsWith(SubSeq(name, i, n), t) THEN t ELSE NoneText
              [] pattern.kind = "class_then" ->
                    IF name[i] \in ChineseNumerals /\ StartsWith(SubSeq(name, i + 1, n), t)
                    THEN <<name[i]>> \o t ELSE NoneText
              [] pattern.kind = "digits_then" ->
                    LET run == DigitRun(name, i) IN
                    IF run # <<>> /\ StartsWith(SubSeq(name, i + Len(run), n), t)
                    THEN run \o t ELSE NoneText
              [] pattern.kind = "then_digits" ->
                    LET run == DigitRun(name, i + Len(t)) IN
                    IF StartsWith(SubSeq(name, i, n), t) /\ run # <<>>
                    THEN t \o run ELSE NoneText
              [] pattern.kind = "not_followed" ->
                    IF StartsWith(SubSeq(name, i, n), t)
                       /\ ~StartsWith(SubSeq(name, i + Len(t), n), pattern.next)
                    THEN t ELSE NoneText
        hits == {i \in 1..n : At(i) # NoneText}
    IN IF hits = {} THEN NoneText
       ELSE At(CHOOSE i \in hits : \A j \in hits : i <= j)

\* The first pattern of the list that matches name: its group(1), NoneText if none
RECURSIVE FirstMatch(_, _)
FirstMatch(patterns, name) ==
    IF patterns = <<>> THEN NoneText
    ELSE IF SearchGroup(Head(patterns), name) # NoneText
         THEN SearchGroup(Head(patterns), name)
         ELSE FirstMatch(Tail(patterns), name)

\* grade_patterns of _extract_grade_from_name
grade_patterns ==
    << [kind |-> "class_then", text |-> Nianji, next |-> <<>>],    \* ([一二三四五六七八九十]年级)
       [kind |-> "digits_then", text |-> Nianji, next |-> <<>>],   \* (\d+年级)
       [kind |-> "then_digits", text |-> <<"U5FC5", "U4FEE">>, next |-> <<>>],   \* (必修\d+)
       [kind |-> "then_digits", text |-> <<"U9009", "U4FEE">>, next |-> <<>>],   \* (选修\d+)
       Literal(<<"U5168", "U4E00", "U518C">>),   \* 全一册
       Literal(<<"U4F4E", "U5E74", "U7EA7">>),   \* 低年级
       Literal(<<"U9AD8", "U5E74", "U7EA7">>),   \* 高年级
       Literal(<<"U4E2D", "U5E74", "U7EA7">>),   \* 中年级
       Literal(<<"U5E7C", "U513F", "U56ED">>),   \* 幼儿园
       Literal(<<"U5B66", "U524D", "U73ED">>),   \* 学前班
       Literal(<<"U9AD8", "U4E00">>),   \* 高一
       Literal(<<"U9AD8", "U4E8C">>),   \* 高二
       Literal(<<"U9AD8", "U4E09">>),   \* 高三
       Literal(<<"U521D", "U4E00">>),   \* 初一
       Literal(<<"U521D", "U4E8C">>),   \* 初二
       Literal(<<"U521D", "U4E09">>),   \* 初三
       Literal(<<"U4E03", "U5E74", "U7EA7">>),   \* 七年级
       Literal(<<"U516B", "U5E74", "U7EA7">>),   \* 八年级
       Literal(<<"U4E5D", "U5E74", "U7EA7">>),   \* 九年级
       Literal(<<"U5927", "U4E00">>),   \* 大一
       Literal(<<"U5927", "U4E8C">>),   \* 大二
       Literal(<<"U5927", "U4E09">>),   \* 大三
       Literal(<<"U5927", "U56DB">>),   \* 大四
       Literal(<<"U4E2D", "U8003">>),   \* 中考
       Literal(<<"U9AD8", "U8003">>),   \* 高考
       Literal(<<"U7EC3", "U4E60", "U9898">>),   \* 练习题
       Literal(<<"U590D", "U4E60">>),   \* 复习
       Literal(<<"U9884", "U4E60">>),   \* 预习
       Literal(<<"U4E0A", "U5B66", "U671F">>),   \* 上学期
       Literal(<<"U4E0B", "U5B66", "U671F">>),   \* 下学期
       Literal(<<"U7B2C", "U4E00", "U5B66", "U671F">>),   \* 第一学期
       Literal(<<"U7B2C", "U4E8C", "U5B66", "U671F">>) >>   \* 第二学期

\* _extract_grade_from_name(name): a str, or NoneText
ExtractGradeFromNameRaw(name) == FirstMatch(grade_patterns, name)
ExtractGradeFromName(name) ==
    LET grade == FirstMatch(grade_patterns, name) IN
    IF grade = NoneText THEN NoneText ELSE NormalizeGradeFormat(grade)

\* _extract_semester_from_name(name): 'first', 'second', 'complete', or NoneText
ExtractSemesterFromName(name) ==
    IF Contains(name, <<"U4E0A", "U518C">>) THEN <<"f", "i", "r", "s", "t">>                     \* 上册
    ELSE IF Contains(name, <<"U4E0B", "U518C">>) THEN <<"s", "e", "c", "o", "n", "d">>           \* 下册
    ELSE IF Contains(name, <<"U5168", "U4E00", "U518C">>) \/ Contains(name, <<"U5FC5", "U4FEE">>) \/ Contains(name, <<"U9009", "U4FEE">>)   \* 全一册, 必修, 选修
         THEN <<"c", "o", "m", "p", "l", "e", "t", "e">>
         ELSE NoneText

\* The title of the reader series _parse_special_complex_filename recognises.
StudentReader == <<"U4E60", "U8FD1", "U5E73", "U65B0", "U65F6", "U4EE3", "U4E2D", "U56FD", "U7279", "U8272", "U793E", "U4F1A", "U4E3B", "U4E49", "U601D", "U60F3", "U5B66", "U751F", "U8BFB", "U672C">>
    \* 习近平新时代中国特色社会主义思想学生读本

DaodeYuFazhi == <<"U9053", "U5FB7", "U4E0E", "U6CD5", "U6CBB">>   \* 道德与法治
Shengwuxue == <<"U751F", "U7269", "U5B66">>         \* 生物学

\* special_patterns of _extract_subject_from_name: (pattern, subject)
special_patterns ==
    << <<Literal(StudentReader), DaodeYuFazhi>>,
       <<Literal(<<"U601D", "U60F3", "U54C1", "U5FB7">>), DaodeYuFazhi>>,     \* 思想品德
       <<Literal(<<"U54C1", "U5FB7", "U4E0E", "U751F", "U6D3B">>), DaodeYuFazhi>>,   \* 品德与生活
       <<Literal(<<"U54C1", "U5FB7", "U4E0E", "U793E", "U4F1A">>), DaodeYuFazhi>>,   \* 品德与社会
       <<Literal(<<"U601D", "U60F3", "U653F", "U6CBB">>), <<"U653F", "U6CBB">>>>,   \* 思想政治 -> 政治
       <<Literal(Shengwuxue), Shengwuxue>>,
       <<[kind |-> "not_followed", text |-> <<"U751F", "U7269">>, next |-> <<"U5B66">>], Shengwuxue>> >>   \* 生物(?!学)

\* subject_patterns of _extract_subject_from_name
subject_patterns ==
    << Literal(<<"U8BED", "U6587">>),   \* 语文
       Literal(<<"U6570", "U5B66">>),   \* 数学
       Literal(<<"U82F1", "U8BED">>),   \* 英语
       Literal(<<"U7269", "U7406">>),   \* 物理
       Literal(<<"U5316", "U5B66">>),   \* 化学
       Literal(Shengwuxue),
       Literal(<<"U5386", "U53F2">>),   \* 历史
       Literal(<<"U5730", "U7406">>),   \* 地理
       Literal(<<"U653F", "U6CBB">>),   \* 政治
       Literal(DaodeYuFazhi),
       Literal(<<"U79D1", "U5B66">>),   \* 科学
       Literal(<<"U97F3", "U4E50">>),   \* 音乐
       Literal(<<"U7F8E", "U672F">>),   \* 美术
       Literal(<<"U4F53", "U80B2", "U4E0E", "U5065", "U5EB7">>),   \* 体育与健康
       Literal(<<"U4FE1", "U606F", "U6280", "U672F">>),   \* 信息技术
       Literal(<<"U9AD8", "U7B49", "U6570", "U5B66">>),   \* 高等数学
       Literal(<<"U7EBF", "U6027", "U4EE3", "U6570">>),   \* 线性代数
       Literal(<<"U6982", "U7387", "U8BBA">>),   \* 概率论
       Literal(<<"U5927", "U5B66", "U7269", "U7406">>),   \* 大学物理
       Literal(<<"U5927", "U5B66", "U82F1", "U8BED">>),   \* 大学英语
       Literal(<<"U8BA1", "U7B97", "U673A">>),   \* 计算机
       Literal(<<"U601D", "U60F3", "U54C1", "U5FB7">>),   \* 思想品德
       Literal(<<"U793E", "U4F1A">>),   \* 社会
       Literal(<<"U81EA", "U7136">>),   \* 自然
       Literal(<<"U7EFC", "U5408", "U5B9E", "U8DF5">>),   \* 综合实践
       Literal(<<"U901A", "U7528", "U6280", "U672F">>),   \* 通用技术
       Literal(<<"U4FC4", "U8BED">>),   \* 俄语
       Literal(<<"U65E5", "U8BED">>),   \* 日语
       Literal(<<"U4EBA", "U6587", "U5730", "U7406">>),   \* 人文地理
       Literal(<<"U5FC3", "U7406", "U5065", "U5EB7">>),   \* 心理健康
       Literal(<<"U52B3", "U52A8", "U6280", "U672F">>),   \* 劳动技术
       Literal(<<"U4E66", "U6CD5">>),   \* 书法
       Literal(<<"U4F20", "U7EDF", "U6587", "U5316">>),   \* 传统文化
       Literal(<<"U56FD", "U5B66">>),   \* 国学
       Literal(<<"U7ECF", "U5178", "U8BF5", "U8BFB">>) >>   \* 经典诵读

\* The subject of the first special pattern found in name, NoneText if none
RECURSIVE FirstSpecial(_, _)
FirstSpecial(pairs, name) ==
    IF pairs = <<>> THEN NoneText
    ELSE IF SearchGroup(Head(pairs)[1], name) # NoneText THEN Head(pairs)[2]
         ELSE FirstSpecial(Tail(pairs), name)

\* _extract_subject_from_name(name): a str, or NoneText
ExtractSubjectFromName(name) ==
    IF FirstSpecial(special_patterns, name) # NoneText
    THEN FirstSpecial(special_patterns, name)
    ELSE FirstMatch(subject_patterns, name)

Quance == <<"U5168", "U518C">>     \* 全册

\* _parse_special_complex_filename(name, path), path = <<>> for a call without path
ParseSpecialComplexFilename(name, path) ==
    LET blank == [subject |-> unknown, grade |-> unknown, semester |-> unknown,
                  level |-> unknown, publisher |-> UnknownPublisher]
    IN
    IF ~Contains(name, StudentReader) THEN blank
    ELSE
    LET titled == [blank EXCEPT !.subject = DaodeYuFazhi,
                                !.publisher = <<"U4EBA", "U6C11", "U51FA", "U7248", "U793E">>]   \* 人民出版社
        graded ==
            IF Contains(name, <<"U5C0F", "U5B66", "U4F4E", "U5E74", "U7EA7">>)        \* 小学低年级
            THEN [titled EXCEPT !.grade = <<"U4F4E", "U5E74", "U7EA7">>, !.level = Xiaoxue]
            ELSE IF Contains(name, <<"U5C0F", "U5B66", "U9AD8", "U5E74", "U7EA7">>)   \* 小学高年级
            THEN [titled EXCEPT !.grade = <<"U9AD8", "U5E74", "U7EA7">>, !.level = Xiaoxue]
            ELSE IF Contains(name, <<"U5C0F", "U5B66", "U4E2D", "U5E74", "U7EA7">>)   \* 小学中年级
            THEN [titled EXCEPT !.grade = <<"U4E2D", "U5E74", "U7EA7">>, !.level = Xiaoxue]
            ELSE IF Contains(name, Chuzhong)
            THEN [titled EXCEPT !.grade = Quance, !.level = Chuzhong]
            ELSE IF Contains(name, Gaozhong)
            THEN [titled EXCEPT !.grade = Quance, !.level = Gaozhong]
            ELSE IF Contains(name, Xiaoxue)
            THEN [titled EXCEPT !.grade = Quance, !.level = Xiaoxue]
            ELSE titled
    IN
    IF graded.level = unknown /\ path # <<>>
    THEN LET first_part == Split(path, "/")[1]
             levelled ==
                 IF first_part \in {Xiaoxue, Chuzhong, Gaozhong, Daxue}
                 THEN [graded EXCEPT !.level = first_part,
                                     !.grade = IF graded.grade = unknown THEN Quance
                                               ELSE graded.grade]
                 ELSE graded
         IN [levelled EXCEPT !.semester = <<"c", "o", "m", "p", "l", "e", "t", "e">>]
    ELSE graded

-----------------------------------------------------------------------------
(* GitHubTextbookScanner: _parse_textbook_metadata and its branches.       *)

\* part_number: <<>> is None, <<n>> is the integer n.
NoPart == <<>>

\* _parse_textbook_metadata: the default values
InitialResult(filename) ==
    [original_name |-> filename,
     parsed_name   |-> Replace(Replace(filename, dot_pdf, <<>>), dot_PDF, <<>>),
     subject       |-> unknown,
     grade         |-> unknown,
     semester      |-> unknown,
     level         |-> unknown,
     publisher     |-> UnknownPublisher,
     part_number   |-> NoPart,
     is_split      |-> FALSE]

\* _parse_textbook_metadata: "Handle split files first"
HandleSplitKeepsFlag(result) ==
    LET name == result.parsed_name
        at == SearchPartSuffix(name)
    IN IF at = 0 THEN result
       ELSE [result EXCEPT !.part_number = <<IntOf(SubSeq(name, at + 1, Len(name)))>>,
                           !.parsed_name = SubSeq(name, 1, at - 1)]
HandleSplit(result) ==
    LET name == result.parsed_name
        at == SearchPartSuffix(name)
    IN IF at = 0 THEN result
       ELSE [result EXCEPT !.part_number = <<IntOf(SubSeq(name, at + 1, Len(name)))>>,
                           !.parsed_name = SubSeq(name, 1, at - 1),
                           !.is_split = TRUE]

\* The merge of a special_result into result: every value that is neither
\* 'unknown' nor the unknown publisher overwrites; keep_level keeps a known level
MergeSpecialCopiesAll(result, special_result, keep_level) ==
    [k \in DOMAIN result |->
        IF k \in DOMAIN special_result /\ ~(k = "level" /\ keep_level /\ result.level # unknown)
        THEN special_result[k]
        ELSE result[k]]
MergeSpecialOverwritesLevel(result, special_result, keep_level) ==
    [k \in DOMAIN result |->
        IF k \in DOMAIN special_result /\ special_result[k] \notin {unknown, UnknownPublisher}
        THEN special_result[k]
        ELSE result[k]]
MergeSpecial(result, special_result, keep_level) ==
    LET Take(v) == v # unknown /\ v # UnknownPublisher IN
    [result EXCEPT
        !.subject   = IF Take(special_result.subject) THEN special_result.subject ELSE @,
        !.grade     = IF Take(special_result.grade) THEN special_result.grade ELSE @,
        !.semester  = IF Take(special_result.semester) THEN special_result.semester ELSE @,
        !.level     = IF Take(special_result.level) /\ ~(keep_level /\ @ # unknown)
                      THEN special_result.level ELSE @,
        !.publisher = IF Take(special_result.publisher) THEN special_result.publisher ELSE @]

\* _parse_from_filename_only(result)
ParseFromFilenameOnly(result) ==
    LET name == result.parsed_name
        special_result == ParseSpecialComplexFilename(name, <<>>)
    IN IF special_result.subject # unknown
       THEN MergeSpecial(result, special_result, FALSE)
       ELSE [result EXCEPT
                !.subject  = IF Truthy(ExtractSubjectFromName(name))
                             THEN ExtractSubjectFromName(name) ELSE @,
                !.grade    = IF Truthy(ExtractGradeFromName(name))
                             THEN ExtractGradeFromName(name) ELSE @,
                !.semester = IF Truthy(ExtractSemesterFromName(name))
                             THEN ExtractSemesterFromName(name) ELSE @]

MathPracticeDir == <<"U5B66", "U6570", "U5B66", "U6700", "U91CD", "U8981", "U7684", "U5237", "U4E60", "U9898", "U5728", "U8FD9", "U91CC", "/">>   \* 学数学最重要的刷习题在这里/
ShuxueLianxi == <<"U6570", "U5B66", "U7EC3", "U4E60">>     \* 数学练习

\* _parse_math_practice_pattern(path_parts, result)
ParseMathPracticePattern(path_parts, result) ==
    LET defaults == [result EXCEPT !.subject = ShuxueLianxi,
                                   !.grade = <<"U7EC3", "U4E60", "U9898">>,        \* 练习题
                                   !.publisher = <<"U7EC3", "U4E60", "U9898", "U96C6">>,  \* 练习题集
                                   !.semester = <<"p", "r", "a", "c", "t", "i", "c", "e">>]
        full_path == Join(path_parts, "/")
        name_grade == OrElse(ExtractGradeFromName(result.parsed_name), ShuxueLianxi)
        levelled ==
            IF Len(path_parts) >= 2
            THEN LET second_part == path_parts[2] IN
                 IF Contains(second_part, <<"U521D", "U4E2D", "U7EC3", "U4E60", "U9898">>)   \* 初中练习题
                 THEN IF Contains(result.original_name, <<"U4E2D", "U8003">>) \/ Contains(full_path, <<"U4E2D", "U8003">>)   \* 中考
                      THEN [defaults EXCEPT !.level = Chuzhong,
                                            !.subject = <<"U4E2D", "U8003", "U6570", "U5B66">>,   \* 中考数学
                                            !.grade = <<"U4E2D", "U8003", "U7EC3", "U4E60">>]     \* 中考练习
                      ELSE [defaults EXCEPT !.level = Chuzhong, !.subject = ShuxueLianxi,
                                            !.grade = name_grade]
                 ELSE IF Contains(second_part, <<"U9AD8", "U4E2D", "U7EC3", "U4E60", "U9898">>)   \* 高中练习题
                 THEN IF Contains(result.original_name, <<"U9AD8", "U8003">>) \/ Contains(full_path, <<"U9AD8", "U8003">>)   \* 高考
                      THEN [defaults EXCEPT !.level = Gaozhong,
                                            !.subject = <<"U9AD8", "U8003", "U6570", "U5B66">>,   \* 高考数学
                                            !.grade = <<"U9AD8", "U8003", "U7EC3", "U4E60">>]     \* 高考练习
                      ELSE [defaults EXCEPT !.level = Gaozhong, !.subject = ShuxueLianxi,
                                            !.grade = name_grade]
                 ELSE IF Contains(second_part, <<"U5C0F", "U5B66", "U7EC3", "U4E60", "U9898">>)   \* 小学练习题
                 THEN [defaults EXCEPT !.level = Xiaoxue, !.subject = ShuxueLianxi,
                                       !.grade = name_grade]
                 ELSE [defaults EXCEPT !.level = Chuzhong]
            ELSE [defaults EXCEPT !.level = Chuzhong]
    IN IF Len(path_parts) >= 3
       THEN LET test_name == path_parts[3] IN
            IF Contains(test_name, Ban) \/ Contains(test_name, Chubanshe)
            THEN [levelled EXCEPT !.publisher = CleanPublisherName(test_name)]
            ELSE [levelled EXCEPT !.publisher = OrElse(test_name, <<"U7EC3", "U4E60", "U9898", "U96C6">>)]   \* 练习题集
       ELSE levelled

\* _parse_regular_textbook_pattern: whether a path component is a PDF file or a
\* merge folder rather than a publisher or a grade directory
IsFileComponent(component) ==
    \/ EndsWith(component, dot_pdf)
    \/ SearchPdfPart(component, FALSE)
    \/ Contains(component, <<".", "p", "d", "f", "_", "m", "e", "r", "g", "e", "_", "f", "o", "l", "d", "e", "r">>)
    \/ StartsWith(component, <<"U4E49", "U52A1", "U6559", "U80B2", "U6559", "U79D1", "U4E66">>)   \* 义务教育教科书

\* _parse_regular_textbook_pattern: the grade taken from the file name
GradeFromFilename(parsed_name) ==
    LET special_result == ParseSpecialComplexFilename(parsed_name, <<>>) IN
    IF special_result.grade # unknown THEN special_result.grade
    ELSE OrElse(ExtractGradeFromName(parsed_name), unknown)

\* _parse_regular_textbook_pattern(path_parts, result), for len(path_parts) >= 3
ParseRegularTextbookPattern(path_parts, result) ==
    LET level_key == GetLevelKeyFromPath(Join(path_parts, "/"))
        show_grades == IF level_key # NoKey THEN ShouldShowGradesForLevel(level_key) ELSE TRUE
        third_component == path_parts[3]
        publisher ==
            IF IsFileComponent(third_component) THEN UnknownPublisher
            ELSE CleanPublisherName(third_component)
        grade ==
            IF IsFileComponent(third_component)
            THEN IF show_grades THEN GradeFromFilename(result.parsed_name) ELSE course
            ELSE IF Len(path_parts) >= 4
                 THEN IF IsFileComponent(path_parts[4])
                      THEN IF show_grades THEN GradeFromFilename(result.parsed_name) ELSE course
                      ELSE IF show_grades THEN path_parts[4] ELSE course
                 ELSE IF ~show_grades THEN course ELSE unknown
    IN [result EXCEPT
           !.level     = OrElse(path_parts[1], unknown),
           !.subject   = OrElse(path_parts[2], unknown),
           !.publisher = publisher,
           !.grade     = grade,
           !.semester  = OrElse(ExtractSemesterFromName(result.parsed_name), unknown)]

\* _parse_textbook_metadata: "If regular parsing didn't extract enough
\* information, try special handling"
MergeSpecialHandlingAlways(parsed_result, path) ==
    LET special_result == ParseSpecialComplexFilename(parsed_result.parsed_name, path) IN
    IF special_result.subject # unknown
    THEN MergeSpecial(parsed_result, special_result, TRUE)
    ELSE parsed_result
MergeSpecialHandling(parsed_result, path) ==
    IF \/ parsed_result.subject = unknown
       \/ parsed_result.grade = unknown
       \/ parsed_result.grade = parsed_result.parsed_name
    THEN LET special_result == ParseSpecialComplexFilename(parsed_result.parsed_name, path) IN
         IF special_result.subject # unknown
         THEN MergeSpecial(parsed_result, special_result, TRUE)
         ELSE parsed_result
    ELSE parsed_result

\* _parse_textbook_metadata: which branch follows the split handling
Branch(path) ==
    IF path = <<>> THEN "filename_only"
    ELSE IF StartsWith(path, MathPracticeDir) THEN "math_practice"
    ELSE IF Len(Split(path, "/")) >= 3 THEN "regular"
    ELSE "filename_only"

\* _parse_textbook_metadata(filename, path), path = <<>> for None
ParseTextbookMetadata(filename, path) ==
    LET result == HandleSplit(InitialResult(filename))
        path_parts == Split(path, "/")
    IN CASE Branch(path) = "filename_only" -> ParseFromFilenameOnly(result)
         [] Branch(path) = "math_practice" -> ParseMathPracticePattern(path_parts, result)
         [] Branch(path) = "regular" ->
                MergeSpecialHandling(ParseRegularTextbookPattern(path_parts, result), path)


-----------------------------------------------------------------------------
(* URLTester.                                                              *)

\* What one session.head(jsdelivr_url, timeout=10) call can do: answer with a
\* status, raise a requests.exceptions.RequestException (a timeout, a refused
\* connection), or raise anything else.
StatusCodes == {200, 204, 404}
RequestErrors == {"ConnectTimeout", "ConnectionError"}
OtherErrors == {"RuntimeError"}

HeadOutcomes ==
    [kind : {"response"}, status_code : StatusCodes, text : {""}]
    \cup [kind : {"RequestException"}, status_code : {0}, text : RequestErrors]
    \cup [kind : {"Exception"}, status_code : {0}, text : OtherErrors]

\* A call that returns v, and a call that raises e.
Return(v) == [raised |-> FALSE, value |-> v]
Raise(e) == [raised |-> TRUE, error |-> e]

\* Nothing yet (a future that has not run).
None == [none |-> TRUE]

\* URLTester.test_jsdelivr_link(file_path), the HEAD request doing `head`
TestJsdelivrLinkAny2xx(file_path, head) ==
    IF ~CanQuote(file_path) THEN Raise("UnicodeEncodeError")
    ELSE CASE head.kind = "response" ->
                Return([file_path |-> file_path, success |-> (head.status_code < 300),
                        status_code |-> head.status_code, error_message |-> ""])
           [] head.kind = "RequestException" ->
                Return([file_path |-> file_path, success |-> FALSE,
                        status_code |-> 0, error_message |-> head.text])
           [] OTHER -> Raise(head.text)
TestJsdelivrLink(file_path, head) ==
    IF ~CanQuote(file_path) THEN Raise("UnicodeEncodeError")
    ELSE CASE head.kind = "response" ->
                Return([file_path |-> file_path, success |-> (head.status_code = 200),
                        status_code |-> head.status_code, error_message |-> ""])
           [] head.kind = "RequestException" ->
                Return([file_path |-> file_path, success |-> FALSE,
                        status_code |-> 0, error_message |-> head.text])
           [] OTHER -> Raise(head.text)

\* The 'urls' dictionary get_optimal_urls builds once the link is tested
OptimalUrlsSwapped(github_url, file_path, jsdelivr_works) ==
    [international_url |-> github_url,
     china_url |-> IF jsdelivr_works
                   THEN fallback_template \o Quote(file_path, {"/"})
                   ELSE jsdelivr_template \o Quote(file_path, {"/"})]
OptimalUrls(github_url, file_path, jsdelivr_works) ==
    [international_url |-> github_url,
     china_url |-> IF jsdelivr_works
                   THEN jsdelivr_template \o Quote(file_path, {"/"})
                   ELSE fallback_template \o Quote(file_path, {"/"})]

\* URLTester.get_optimal_urls(github_url, file_path), given what
\* test_jsdelivr_link did: (result, jsdelivr_works, status_code)
GetOptimalUrls(github_url, file_path, tested) ==
    IF tested.raised THEN tested
    ELSE Return([result |-> OptimalUrls(github_url, file_path, tested.value.success),
                 jsdelivr_works |-> tested.value.success,
                 status_code |-> tested.value.status_code])

\* test_multiple_urls: the entry stored for a task whose future.result() returned
ResultEntry(file_path, returned) ==
    [urls |-> returned.result,
     jsdelivr_works |-> returned.jsdelivr_works,
     status_code |-> returned.status_code,
     file_path |-> file_path]

\* test_multiple_urls: the entry stored by the except branch, for a task that raised e
FallbackEntryDropsError(github_url, file_path, e) ==
    [urls |-> [international_url |-> github_url,
               china_url |-> fallback_template \o Quote(file_path, {"/"})],
     jsdelivr_works |-> FALSE,
     status_code |-> 0,
     file_path |-> file_path,
     error |-> ""]
FallbackEntry(github_url, file_path, e) ==
    [urls |-> [international_url |-> github_url,
               china_url |-> fallback_template \o Quote(file_path, {"/"})],
     jsdelivr_works |-> FALSE,
     status_code |-> 0,
     file_path |-> file_path,
     error |-> e]

-----------------------------------------------------------------------------
(* GitHubTextbookScanner.process_tree_data and URLTester.test_multiple_urls, *)
(* as one run.                                                             *)

\* GitHubTextbookScanner.test_urls, as main constructs the scanner
test_urls == TRUE

\* The repository listing the runs draw their listings from, in the
\* repository's order: each run lists at most MaxFiles of these entries.
TreeListing ==
    << [path |-> <<"R", "E", "A", "D", "M", "E", ".", "m", "d">>, type |-> "blob", size |-> 10],                  \* README.md
       [path |-> <<"a", " ", "b", "/", "%", ".", "p", "d", "f", ".", "1">>, type |-> "blob", size |-> 20],                \* a b/%.pdf.1
       [path |-> <<"x", ".", "P", "D", "F">>, type |-> "blob", size |-> 30],                      \* x.PDF
       [path |-> <<Surrogate, ".", "p", "d", "f">>, type |-> "blob", size |-> 40],   \* '\ud800.pdf'
       [path |-> <<"U5927", "U5B66", "/", "x", ".", "p", "d", "f">>, type |-> "blob", size |-> 50],                 \* 大学/x.pdf
       [path |-> <<"U5C0F", "U5B66">>, type |-> "tree", size |-> 0],                        \* 小学
       [path |-> <<"U5C0F", "U5B66", "/", "U8BED", "U6587", "/", "U4E00", ".", "p", "d", "f">>, type |-> "blob", size |-> 60] >>         \* 小学/语文/一.pdf

\* The entries of TreeListing at the positions S, in order
RECURSIVE Listing(_)
Listing(S) ==
    IF S = {} THEN <<>>
    ELSE LET m == CHOOSE k \in S : \A j \in S : k <= j IN
         <<TreeListing[m]>> \o Listing(S \ {m})

\* process_tree_data: is_pdf or is_split_pdf, for a blob
IsPdfBlob(item) ==
    /\ item.type = "blob"
    /\ \/ EndsWith(item.path, dot_pdf)
       \/ EndsWith(item.path, dot_PDF)
       \/ SearchPdfPart(item.path, TRUE)

\* process_tree_data: whether the first pass keeps the item
IsProcessed(item) ==
    /\ IsPdfBlob(item)
    /\ LET level_key == GetLevelKeyFromPath(item.path) IN
       ~(level_key # NoKey /\ ShouldIgnorePath(item.path, level_key))

\* process_tree_data: github_url
GithubUrlEncodesSlash(path) == raw_base_url \o <<"/">> \o Quote(path, {})
GithubUrlWithoutPath(path) == raw_base_url \o <<"/">>
GithubUrl(path) == raw_base_url \o <<"/">> \o Quote(path, DefaultSafe)

\* process_tree_data: textbook_entry
TextbookEntry(item) ==
    LET pdf_filename == Basename(item.path)
        parsed == ParseTextbookMetadata(pdf_filename, item.path)
        github_url == GithubUrl(item.path)
    IN [level             |-> parsed.level,
        subject           |-> OrElse(parsed.subject, unknown),
        grade             |-> OrElse(parsed.grade, unknown),
        semester          |-> OrElse(parsed.semester, unknown),
        publisher         |-> parsed.publisher,
        title             |-> parsed.parsed_name,
        file_path         |-> item.path,
        file_name         |-> pdf_filename,
        download_url      |-> github_url,
        international_url |-> github_url,
        china_url         |-> github_url,
        is_split          |-> parsed.is_split,
        part_number       |-> parsed.part_number,
        file_size         |-> item.size]

\* The items of a listing that the first pass keeps, in order
RECURSIVE Processed(_)
Processed(items) ==
    IF items = <<>> THEN <<>>
    ELSE (IF IsProcessed(Head(items)) THEN <<Head(items)>> ELSE <<>>) \o Processed(Tail(items))

\* f with f[k] = v: d[k] = v on a Python dict
Put(f, k, v) == [x \in (DOMAIN f) \cup {k} |-> IF x = k THEN v ELSE f[x]]

\* process_tree_data, first pass (the loop over tree_data), up to the submission
\* of every task by test_multiple_urls.  quote() raising on a path ends the run
\* in main's "except Exception".
FirstPass ==
    /\ pc = "first_pass"
    /\ LET items == Processed(tree_data)
           n == Len(items)
       IN IF \E k \in 1..n : ~CanQuote(items[k].path)
          THEN /\ pc' = "error"
               /\ UNCHANGED <<textbooks, url_test_data, futures, head_calls>>
          ELSE /\ textbooks' = [k \in 1..n |-> TextbookEntry(items[k])]
               /\ url_test_data' =
                      IF test_urls
                      THEN [k \in 1..n |-> <<GithubUrl(items[k].path), items[k].path>>]
                      ELSE <<>>
               /\ futures' = [k \in 1..Len(url_test_data') |->
                                 [github_url |-> url_test_data'[k][1],
                                  file_path  |-> url_test_data'[k][2],
                                  state      |-> "pending",
                                  head       |-> None,
                                  tested     |-> None,
                                  outcome    |-> None]]
               /\ head_calls' = [p \in {url_test_data'[k][2] : k \in 1..Len(url_test_data')} |-> 0]
               /\ pc' = IF url_test_data' # <<>> THEN "testing" ELSE "done"
    /\ UNCHANGED <<tree_data, max_workers, results, completed>>

\* ThreadPoolExecutor: an idle worker takes the oldest task of the queue
WorkerStartKeepsOneIdle(i) ==
    /\ pc = "testing"
    /\ futures[i].state = "pending"
    /\ \A j \in 1..(i - 1) : futures[j].state # "pending"
    /\ Cardinality({j \in 1..Len(futures) : futures[j].state = "running"}) < max_workers - 1
    /\ futures' = [futures EXCEPT ![i].state = "running"]
    /\ UNCHANGED <<pc, tree_data, max_workers, textbooks, url_test_data, results,
                   completed, head_calls>>
WorkerStart(i) ==
    /\ pc = "testing"
    /\ futures[i].state = "pending"
    /\ \A j \in 1..(i - 1) : futures[j].state # "pending"
    /\ Cardinality({j \in 1..Len(futures) : futures[j].state = "running"}) < max_workers
    /\ futures' = [futures EXCEPT ![i].state = "running"]
    /\ UNCHANGED <<pc, tree_data, max_workers, textbooks, url_test_data, results,
                   completed, head_calls>>

\* A worker runs get_optimal_urls(github_url, file_path) to its end
WorkerRunRetriesFailure(i) ==
    /\ pc = "testing"
    /\ futures[i].state = "running"
    /\ \E head \in HeadOutcomes :
          LET f == futures[i]
              requested == CanQuote(f.file_path)
              tested == TestJsdelivrLink(f.file_path, head)
              failed == tested.raised \/ ~tested.value.success
          IN /\ futures' = [futures EXCEPT ![i] =
                               [f EXCEPT !.state = "done",
                                         !.head = IF requested THEN head ELSE None,
                                         !.tested = tested,
                                         !.outcome = GetOptimalUrls(f.github_url, f.file_path, tested)]]
             /\ head_calls' = IF requested
                              THEN [head_calls EXCEPT ![f.file_path] = @ + (IF failed THEN 2 ELSE 1)]
                              ELSE head_calls
    /\ UNCHANGED <<pc, tree_data, max_workers, textbooks, url_test_data, results, completed>>
WorkerRun(i) ==
    /\ pc = "testing"
    /\ futures[i].state = "running"
    /\ \E head \in HeadOutcomes :
          LET f == futures[i]
              requested == CanQuote(f.file_path)
              tested == TestJsdelivrLink(f.file_path, head)
          IN /\ futures' = [futures EXCEPT ![i] =
                               [f EXCEPT !.state = "done",
                                         !.head = IF requested THEN head ELSE None,
                                         !.tested = tested,
                                         !.outcome = GetOptimalUrls(f.github_url, f.file_path, tested)]]
             /\ head_calls' = IF requested
                              THEN [head_calls EXCEPT ![f.file_path] = @ + 1]
                              ELSE head_calls
    /\ UNCHANGED <<pc, tree_data, max_workers, textbooks, url_test_data, results, completed>>

\* test_multiple_urls: one turn of "for future in as_completed(future_to_data)"
CollectKeyedByArrival(i) ==
    /\ pc = "testing"
    /\ futures[i].state = "done"
    /\ LET f == futures[i] IN
       IF f.outcome.raised /\ ~CanQuote(f.file_path)
       THEN /\ pc' = "error"
            /\ results' = results
       ELSE /\ pc' = pc
            /\ results' = Put(results, url_test_data[completed + 1][1],
                              IF f.outcome.raised
                              THEN FallbackEntry(f.github_url, f.file_path, f.outcome.error)
                              ELSE ResultEntry(f.file_path, f.outcome.value))
    /\ completed' = completed + 1
    /\ futures' = [futures EXCEPT ![i].state = "collected"]
    /\ UNCHANGED <<tree_data, max_workers, textbooks, url_test_data, head_calls>>
Collect(i) ==
    /\ pc = "testing"
    /\ futures[i].state = "done"
    /\ LET f == futures[i] IN
       IF f.outcome.raised /\ ~CanQuote(f.file_path)
       THEN \* quote() raises again inside the except branch
            /\ pc' = "error"
            /\ results' = results
       ELSE /\ pc' = pc
            /\ results' = Put(results, f.github_url,
                              IF f.outcome.raised
                              THEN FallbackEntry(f.github_url, f.file_path, f.outcome.error)
                              ELSE ResultEntry(f.file_path, f.outcome.value))
    /\ completed' = completed + 1
    /\ futures' = [futures EXCEPT ![i].state = "collected"]
    /\ UNCHANGED <<tree_data, max_workers, textbooks, url_test_data, head_calls>>

\* test_multiple_urls: the loop is over, the summary is printed, results returned
ReturnResults ==
    /\ pc = "testing"
    /\ \A i \in 1..Len(futures) : futures[i].state = "collected"
    /\ pc' = "returned"
    /\ UNCHANGED <<tree_data, max_workers, textbooks, url_test_data, futures, results,
                   completed, head_calls>>

\* process_tree_data, second pass: "Update textbook entries with tested URLs"
UpdatedEntry(textbook, url_results) ==
    IF textbook.download_url \in DOMAIN url_results
    THEN LET result_data == url_results[textbook.download_url] IN
         [level             |-> textbook.level,
          subject           |-> textbook.subject,
          grade             |-> textbook.grade,
          semester          |-> textbook.semester,
          publisher         |-> textbook.publisher,
          title             |-> textbook.title,
          file_path         |-> textbook.file_path,
          file_name         |-> textbook.file_name,
          download_url      |-> textbook.download_url,
          international_url |-> textbook.international_url,
          china_url         |-> result_data.urls.china_url,
          is_split          |-> textbook.is_split,
          part_number       |-> textbook.part_number,
          file_size         |-> textbook.file_size,
          jsdelivr_works    |-> result_data.jsdelivr_works,
          test_status_code  |-> result_data.status_code]
    ELSE textbook

SecondPass ==
    /\ pc = "returned"
    /\ textbooks' = [k \in 1..Len(textbooks) |-> UpdatedEntry(textbooks[k], results)]
    /\ pc' = "done"
    /\ UNCHANGED <<tree_data, max_workers, url_test_data, futures, results, completed,
                   head_calls>>

-----------------------------------------------------------------------------
(* One call of _parse_textbook_metadata, stage by stage.                   *)

\* The path components and file names the calls are drawn from.
FirstParts ==
    { Xiaoxue, Daxue, Gaozhong,
      <<"U5176", "U4ED6">>,                                  \* 其他
      <<"U5B66", "U6570", "U5B66", "U6700", "U91CD", "U8981", "U7684", "U5237", "U4E60", "U9898", "U5728", "U8FD9", "U91CC">>,            \* 学数学最重要的刷习题在这里
      <<>> }
SecondParts ==
    { <<"U6570", "U5B66">>,                                  \* 数学
      unknown,
      <<"U521D", "U4E2D", "U7EC3", "U4E60", "U9898", "_", "U5E26", "U7B54", "U6848">>,                     \* 初中练习题_带答案
      <<>> }
ThirdParts ==
    { <<"U4EBA", "U6559", "U7248">>,                                \* 人教版
      <<"U534E", "U4E2D", "U5E08", "U5927", "U7248", "-", "U534E", "U4E2D", "U5E08", "U8303", "U5927", "U5B66", "U51FA", "U7248", "U793E">>,         \* 华中师大版-华中师范大学出版社
      <<"U4E49", "U52A1", "U6559", "U80B2", "U6559", "U79D1", "U4E66">>,                  \* 义务教育教科书
      <<"U5317", "U5E08", "U5927", "U51FA", "U7248", "U793E">> }                         \* 北师大出版社
FourthParts ==
    { <<"U4E00", "U5E74", "U7EA7">>,                                \* 一年级
      unknown,
      StudentReader,
      <<"U4E0A", "U518C", ".", "p", "d", "f", "_", "m", "e", "r", "g", "e", "_", "f", "o", "l", "d", "e", "r">> }                \* 上册.pdf_merge_folder
FileNames ==
    { <<"U8BFE", "U672C", ".", "p", "d", "f">>,                              \* 课本.pdf
      <<"U7CBE", "U8BFB", ".", "p", "d", "f", ".", "2">>,                            \* 精读.pdf.2
      <<"U7CBE", "U8BFB", ".", "P", "d", "f", ".", "2">>,                            \* 精读.Pdf.2
      <<"U7CBE", "U8BFB", ".", "P", "D", "F", ".", "1", "0">>,                           \* 精读.PDF.10
      StudentReader \o dot_pdf,
      StudentReader \o <<"U5C0F", "U5B66", "U4F4E", "U5E74", "U7EA7", ".", "p", "d", "f">>,       \* ...小学低年级.pdf
      <<"U4E00", "U5E74", "U7EA7", ".", "p", "d", "f">>,                            \* 一年级.pdf
      <<"4", "U5E74", "U7EA7", "U4E0A", "U518C", ".", "p", "d", "f">>,                         \* 4年级上册.pdf
      <<"U6570", "U5B66", "U5FC5", "U4FEE", "1", ".", "p", "d", "f">>,                         \* 数学必修1.pdf
      <<"U4E2D", "U8003", ".", "2", ".", "p", "d", "f">>,                            \* 中考.2.pdf
      <<"U751F", "U7269", ".", "p", "d", "f", ".", "0">> }                           \* 生物.pdf.0

\* The paths of the calls: a path ends in the file name, and <<>> is a call without path
ClassifyPaths ==
    {<<>>}
    \cup FileNames
    \cup {a \o <<"/">> \o f : a \in FirstParts, f \in FileNames}
    \cup {a \o <<"/">> \o b \o <<"/">> \o f : a \in FirstParts, b \in SecondParts, f \in FileNames}
    \cup {a \o <<"/">> \o b \o <<"/">> \o c : a \in FirstParts, b \in SecondParts, c \in ThirdParts}
    \cup {a \o <<"/">> \o b \o <<"/">> \o c \o <<"/">> \o f :
            a \in FirstParts, b \in SecondParts, c \in ThirdParts, f \in FileNames}
    \cup {a \o <<"/">> \o b \o <<"/">> \o c \o <<"/">> \o d \o <<"/">> \o f :
            a \in FirstParts, b \in SecondParts, c \in ThirdParts, d \in FourthParts,
            f \in FileNames}

\* _parse_textbook_metadata: "Handle split files first (applies to all patterns)"
HandleSplitFiles ==
    /\ cpc = "split"
    /\ c_result' = HandleSplit(c_result)
    /\ cpc' = Branch(c_path)
    /\ UNCHANGED <<c_filename, c_path, memo, config>>

\* _parse_textbook_metadata: return self._parse_from_filename_only(result)
FilenameOnly ==
    /\ cpc = "filename_only"
    /\ c_result' = ParseFromFilenameOnly(c_result)
    /\ cpc' = "return"
    /\ UNCHANGED <<c_filename, c_path, memo, config>>

\* _parse_textbook_metadata: return self._parse_math_practice_pattern(path_parts, result)
MathPractice ==
    /\ cpc = "math_practice"
    /\ c_result' = ParseMathPracticePattern(Split(c_path, "/"), c_result)
    /\ cpc' = "return"
    /\ UNCHANGED <<c_filename, c_path, memo, config>>

\* _parse_textbook_metadata: parsed_result = self._parse_regular_textbook_pattern(...)
RegularTextbookSetsShowGrades ==
    /\ cpc = "regular"
    /\ c_result' = ParseRegularTextbookPattern(Split(c_path, "/"), c_result)
    /\ cpc' = "merge"
    /\ config' = [levels |-> [k \in DOMAIN config.levels |->
                                 [config.levels[k] EXCEPT !.showGrades = TRUE]]]
    /\ UNCHANGED <<c_filename, c_path, memo>>
RegularTextbook ==
    /\ cpc = "regular"
    /\ c_result' = ParseRegularTextbookPattern(Split(c_path, "/"), c_result)
    /\ cpc' = "merge"
    /\ UNCHANGED <<c_filename, c_path, memo, config>>

\* _parse_textbook_metadata: the special handling after the regular parse, and the return
SpecialHandling ==
    /\ cpc = "merge"
    /\ c_result' = MergeSpecialHandling(c_result, c_path)
    /\ cpc' = "return"
    /\ UNCHANGED <<c_filename, c_path, memo, config>>

-----------------------------------------------------------------------------
(* main, get_repository_tree and generate_javascript_file.                 *)

\* The states of a file: not there, there but not readable as what it should
\* hold, or holding data.
NoFile == [kind |-> "absent", data |-> <<>>]
BrokenFile == [kind |-> "broken", data |-> <<>>]
FileOf(data) == [kind |-> "data", data |-> data]

\* An Optional[List[Dict]]: None, or a tree.
NoTree == [some |-> FALSE, tree |-> <<>>]
TreeOf(tree) == [some |-> TRUE, tree |-> tree]

\* load_tree_cache(): cache_data.get('tree', []), None without a readable file
LoadTreeCache == IF cache_file.kind = "data" THEN TreeOf(cache_file.data) ELSE NoTree

\* "if tree_data:" for a tree or None
TreeTruthy(tree) == tree.some /\ tree.tree # <<>>

\* The outcomes of session.get on the Trees API.
ApiStatusCodes == {200, 403, 500}
ApiOutcomes ==
    [kind : {"response"}, status_code : ApiStatusCodes]
    \cup {[kind |-> "Exception", status_code |-> 0]}

\* get_repository_tree(), called by main
GetRepositoryTree ==
    /\ pc = "main"
    /\ IF TreeTruthy(LoadTreeCache)
       THEN /\ main_tree_data' = LoadTreeCache
            /\ message' = "Loaded repository tree from cache"
            /\ UNCHANGED cache_file
       ELSE \E response \in ApiOutcomes :
               IF response.kind = "response" /\ response.status_code = 200
               THEN /\ main_tree_data' = TreeOf(repo_tree)
                    /\ cache_file' = FileOf(repo_tree)
                    /\ message' = "Saved tree cache"
               ELSE /\ main_tree_data' = NoTree
                    /\ message' = CASE response.kind = "Exception" -> "Exception fetching tree"
                                     [] response.status_code = 403 -> "Rate limited or access denied"
                                     [] OTHER -> "Error fetching tree"
                    /\ UNCHANGED cache_file
    /\ pc' = "tree_fetched"
    /\ UNCHANGED <<repo_tree, output_file, exit_code, runvars_but_pc>>

\* main: "if not tree_data:" prints the failure and returns
MainNoTreeGoesOn ==
    /\ pc = "tree_fetched"
    /\ ~TreeTruthy(main_tree_data)
    /\ pc' = "done"
    /\ UNCHANGED <<mainvars, runvars_but_pc>>
MainNoTree ==
    /\ pc = "tree_fetched"
    /\ ~TreeTruthy(main_tree_data)
    /\ message' = "Failed to fetch repository tree. Exiting."
    /\ exit_code' = <<0>>
    /\ pc' = "exit"
    /\ UNCHANGED <<cache_file, repo_tree, main_tree_data, output_file, runvars_but_pc>>

\* main: raw_textbooks = scanner.process_tree_data(tree_data); the call is
\* entered, and prints that it processes the entries
MainProcess ==
    /\ pc = "tree_fetched"
    /\ TreeTruthy(main_tree_data)
    /\ tree_data' = main_tree_data.tree
    /\ message' = "Processing tree entries"
    /\ pc' = "first_pass"
    /\ UNCHANGED <<cache_file, repo_tree, main_tree_data, output_file, exit_code, max_workers, textbooks, url_test_data, futures, results,
                   completed, head_calls>>

\* main: the entries with a known level and a known subject
FilteredData(raw_textbooks) ==
    SelectSeq(raw_textbooks, LAMBDA book : book.level # unknown /\ book.subject # unknown)

\* main: generate_javascript_file(filtered_data), and the return of main; the
\* write opens the file (which empties it) and may fail after that, which the
\* except branch of main prints
GenerateJavascriptFile ==
    /\ pc = "done"
    /\ \E written \in BOOLEAN :
          IF written
          THEN /\ output_file' = FileOf(FilteredData(textbooks))
               /\ message' = "Successfully generated"
          ELSE /\ output_file' \in {output_file, BrokenFile}
               /\ message' = "Error"
    /\ exit_code' = <<0>>
    /\ pc' = "exit"
    /\ UNCHANGED <<cache_file, repo_tree, main_tree_data, runvars_but_pc>>

\* main: "except Exception as e" for an exception out of process_tree_data
MainExcept ==
    /\ pc = "error"
    /\ message' = "Error"
    /\ exit_code' = <<0>>
    /\ pc' = "exit"
    /\ UNCHANGED <<cache_file, repo_tree, main_tree_data, output_file, runvars_but_pc>>

-----------------------------------------------------------------------------
(* A KeyboardInterrupt in the thread of test_multiple_urls.                *)

\* test_multiple_urls: KeyboardInterrupt is raised in the as_completed loop; the
\* exception leaves the loop and enters ThreadPoolExecutor.__exit__, which is
\* shutdown(wait=True): nothing is cancelled.
Interrupt ==
    /\ pc = "testing"
    /\ pc' = "shutdown"
    /\ UNCHANGED runvars_but_pc

\* ThreadPoolExecutor after shutdown(wait=True): a worker still takes the oldest
\* task of the queue
ShutdownWorkerStart(i) ==
    /\ pc = "shutdown"
    /\ futures[i].state = "pending"
    /\ \A j \in 1..(i - 1) : futures[j].state # "pending"
    /\ Cardinality({j \in 1..Len(futures) : futures[j].state = "running"}) < max_workers
    /\ futures' = [futures EXCEPT ![i].state = "running"]
    /\ UNCHANGED <<pc, tree_data, max_workers, textbooks, url_test_data, results,
                   completed, head_calls>>

\* ThreadPoolExecutor after shutdown(wait=True): a worker runs
\* get_optimal_urls(github_url, file_path) to its end
ShutdownWorkerRun(i) ==
    /\ pc = "shutdown"
    /\ futures[i].state = "running"
    /\ \E head \in HeadOutcomes :
          LET f == futures[i]
              requested == CanQuote(f.file_path)
              tested == TestJsdelivrLink(f.file_path, head)
          IN /\ futures' = [futures EXCEPT ![i] =
                               [f EXCEPT !.state = "done",
                                         !.head = IF requested THEN head ELSE None,
                                         !.tested = tested,
                                         !.outcome = GetOptimalUrls(f.github_url, f.file_path, tested)]]
             /\ head_calls' = IF requested
                              THEN [head_calls EXCEPT ![f.file_path] = @ + 1]
                              ELSE head_calls
    /\ UNCHANGED <<pc, tree_data, max_workers, textbooks, url_test_data, results, completed>>

\* The workers have ended, shutdown returns, the exception leaves
\* test_multiple_urls and process_tree_data, whose locals are lost, and reaches
\* main: "except KeyboardInterrupt"
MainInterrupted ==
    /\ pc = "shutdown"
    /\ \A i \in 1..Len(futures) : futures[i].state \notin {"pending", "running"}
    /\ results' = [u \in {} |-> None]
    /\ textbooks' = <<>>
    /\ message' = "Process interrupted by user"
    /\ exit_code' = <<0>>
    /\ pc' = "exit"
    /\ UNCHANGED <<cache_file, repo_tree, main_tree_data, output_file, tree_data,
                   max_workers, url_test_data, futures, completed, head_calls>>

-----------------------------------------------------------------------------
(* The specifications.                                                     *)

RunIdle ==
    /\ pc = "idle"
    /\ cache_file = NoFile
    /\ repo_tree = <<>>
    /\ main_tree_data = NoTree
    /\ output_file = NoFile
    /\ message = ""
    /\ exit_code = <<>>
    /\ tree_data = <<>>
    /\ max_workers = 1
    /\ textbooks = <<>>
    /\ url_test_data = <<>>
    /\ futures = <<>>
    /\ results = [u \in {} |-> None]
    /\ completed = 0
    /\ head_calls = [p \in {} |-> 0]

CallIdle ==
    /\ cpc = "idle"
    /\ c_filename = <<>>
    /\ c_path = <<>>
    /\ c_result = None
    /\ memo = {}

FnIdle ==
    /\ fpc = "idle"
    /\ f_name = ""
    /\ f_arg = <<>>
    /\ f_ret = <<>>

\* A run of main: the repository holds a listing, the cache file is absent,
\* unreadable, holds no entry or holds the listing; the pool of the URL tester
\* has max_workers workers.
Init ==
    /\ pc = "main"
    /\ repo_tree \in {Listing(S) : S \in {T \in SUBSET (1..Len(TreeListing)) : Cardinality(T) <= MaxFiles}}
    /\ cache_file \in {NoFile, BrokenFile, FileOf(<<>>), FileOf(repo_tree)}
    /\ main_tree_data = NoTree
    /\ output_file = NoFile
    /\ message = ""
    /\ exit_code = <<>>
    /\ tree_data = <<>>
    /\ max_workers \in 1..MaxWorkers
    /\ textbooks = <<>>
    /\ url_test_data = <<>>
    /\ futures = <<>>
    /\ results = [u \in {} |-> None]
    /\ completed = 0
    /\ head_calls = [p \in {} |-> 0]
    /\ CallIdle
    /\ FnIdle
    /\ config = DefaultConfig

Next ==
    \/ GetRepositoryTree /\ UNCHANGED notrun
    \/ MainNoTree /\ UNCHANGED notrun
    \/ MainProcess /\ UNCHANGED notrun
    \/ GenerateJavascriptFile /\ UNCHANGED notrun
    \/ MainExcept /\ UNCHANGED notrun
    \/ FirstPass /\ UNCHANGED notstep
    \/ \E i \in 1..Len(futures) : WorkerStart(i) /\ UNCHANGED notstep
    \/ \E i \in 1..Len(futures) : WorkerRun(i) /\ UNCHANGED notstep
    \/ \E i \in 1..Len(futures) : Collect(i) /\ UNCHANGED notstep
    \/ ReturnResults /\ UNCHANGED notstep
    \/ SecondPass /\ UNCHANGED notstep

Spec == Init /\ [][Next]_vars

\* The run with its scheduling: the executor hands a pending task to a free
\* worker, a HEAD request ends within its timeout (timeout=10), and the thread
\* of test_multiple_urls goes on with its loop and returns.
PoolFairness ==
    /\ WF_vars(\E i \in 1..Len(futures) : WorkerStart(i) /\ UNCHANGED notstep)
    /\ WF_vars(\E i \in 1..Len(futures) : WorkerRun(i) /\ UNCHANGED notstep)
    /\ WF_vars(\E i \in 1..Len(futures) : Collect(i) /\ UNCHANGED notstep)
    /\ WF_vars(ReturnResults /\ UNCHANGED notstep)

SpecLive == Init /\ [][Next]_vars /\ PoolFairness

\* The run of main in which Ctrl-C may arrive during test_multiple_urls.
NextInterrupt ==
    \/ Next
    \/ Interrupt /\ UNCHANGED notstep
    \/ \E i \in 1..Len(futures) : ShutdownWorkerStart(i) /\ UNCHANGED notstep
    \/ \E i \in 1..Len(futures) : ShutdownWorkerRun(i) /\ UNCHANGED notstep
    \/ MainInterrupted /\ UNCHANGED notrun

SpecInterrupt == Init /\ [][NextInterrupt]_vars

\* A call _parse_textbook_metadata(filename, path).
InitClassify ==
    /\ RunIdle
    /\ FnIdle
    /\ config = DefaultConfig
    /\ memo = {}
    /\ c_path \in ClassifyPaths
    /\ c_filename \in (IF c_path = <<>> THEN FileNames ELSE {Basename(c_path)})
    /\ c_result = InitialResult(c_filename)
    /\ cpc = "split"

NextClassify ==
    \/ HandleSplitFiles /\ UNCHANGED notcall
    \/ FilenameOnly /\ UNCHANGED notcall
    \/ MathPractice /\ UNCHANGED notcall
    \/ RegularTextbook /\ UNCHANGED notcall
    \/ SpecialHandling /\ UNCHANGED notcall

SpecClassify == InitClassify /\ [][NextClassify]_vars

\* The files a caller classifies one after the other on the same scanner:
\* path and file name, <<>> for a call without path.
SessionCalls ==
    { [path |-> <<>>, filename |-> <<"U4E00", "U5E74", "U7EA7", ".", "p", "d", "f">>],      \* 一年级.pdf
      [path |-> MathPracticeDir \o <<"U521D", "U4E2D", "U7EC3", "U4E60", "U9898", "_", "U5E26", "U7B54", "U6848", "/", "U4E2D", "U8003", ".", "2", ".", "p", "d", "f">>,
       filename |-> <<"U4E2D", "U8003", ".", "2", ".", "p", "d", "f">>],      \* 学数学最重要的刷习题在这里/初中练习题_带答案/中考.2.pdf
      [path |-> Daxue \o <<"/", "U6570", "U5B66", "/", "U8BFE", "U672C", ".", "p", "d", "f">>,
       filename |-> <<"U8BFE", "U672C", ".", "p", "d", "f">>],      \* 大学/数学/课本.pdf
      [path |-> Daxue \o <<"/">> \o unknown \o <<"/">> \o StudentReader \o dot_pdf,
       filename |-> StudentReader \o dot_pdf],
      [path |-> Xiaoxue \o <<"/">> \o unknown \o <<"/", "U4EBA", "U6559", "U7248", "/", "U4E00", "U5E74", "U7EA7", "/">> \o StudentReader \o dot_pdf,
       filename |-> StudentReader \o dot_pdf],      \* 小学/unknown/人教版/一年级/....pdf
      [path |-> Xiaoxue \o <<"/", "U6570", "U5B66", "/", "U4EBA", "U6559", "U7248", "/", "U7CBE", "U8BFB", ".", "p", "d", "f", ".", "2">>,
       filename |-> <<"U7CBE", "U8BFB", ".", "p", "d", "f", ".", "2">>] }      \* 小学/数学/人教版/精读.pdf.2

\* process_tree_data: the loop goes on to the next file and calls
\* _parse_textbook_metadata again, on the same scanner.
NextCall ==
    /\ cpc = "return"
    /\ memo' = memo \cup {[filename |-> c_filename, path |-> c_path, result |-> c_result]}
    /\ \E c \in SessionCalls :
          /\ c_filename' = c.filename
          /\ c_path' = c.path
          /\ c_result' = InitialResult(c.filename)
    /\ cpc' = "split"
    /\ UNCHANGED config

\* A sequence of calls of _parse_textbook_metadata on one scanner.
InitSession ==
    /\ RunIdle
    /\ FnIdle
    /\ config = DefaultConfig
    /\ memo = {}
    /\ \E c \in SessionCalls :
          /\ c_filename = c.filename
          /\ c_path = c.path
          /\ c_result = InitialResult(c.filename)
    /\ cpc = "split"

NextSession ==
    \/ HandleSplitFiles /\ UNCHANGED notcall
    \/ FilenameOnly /\ UNCHANGED notcall
    \/ MathPractice /\ UNCHANGED notcall
    \/ RegularTextbook /\ UNCHANGED notcall
    \/ SpecialHandling /\ UNCHANGED notcall
    \/ NextCall /\ UNCHANGED notcall

SpecSession == InitSession /\ [][NextSession]_vars

\* The strings of at most n characters of the alphabet A.
Strings(A, n) == UNION {[1..k -> A] : k \in 0..n}

\* The characters of the raw publisher names: 出 版 社 - 人
PublisherAlphabet == {"U51FA", "U7248", "U793E", "-", "U4EBA"}
\* The characters of the grade tokens and names: 1 0 2 年 级 上 七
GradeAlphabet == {"1", "0", "2", "U5E74", "U7EA7", "U4E0A", "U4E03"}

\* The calls: the function and its argument.
HelperCalls ==
    ({"_clean_publisher_name"} \X Strings(PublisherAlphabet, MaxPublisherLen))
    \cup ({"_normalize_grade_format", "_extract_grade_from_name"}
             \X Strings(GradeAlphabet, MaxGradeLen))

\* self._clean_publisher_name(publisher_raw)
CallCleanPublisherName ==
    /\ fpc = "call" /\ f_name = "_clean_publisher_name"
    /\ f_ret' = CleanPublisherName(f_arg)
    /\ fpc' = "return"
    /\ UNCHANGED <<f_name, f_arg>>

\* self._normalize_grade_format(grade)
CallNormalizeGradeFormat ==
    /\ fpc = "call" /\ f_name = "_normalize_grade_format"
    /\ f_ret' = NormalizeGradeFormat(f_arg)
    /\ fpc' = "return"
    /\ UNCHANGED <<f_name, f_arg>>

\* self._extract_grade_from_name(name)
CallExtractGradeFromName ==
    /\ fpc = "call" /\ f_name = "_extract_grade_from_name"
    /\ f_ret' = ExtractGradeFromName(f_arg)
    /\ fpc' = "return"
    /\ UNCHANGED <<f_name, f_arg>>

\* A call of a helper function of the parser.
InitCalls ==
    /\ RunIdle
    /\ CallIdle
    /\ fpc = "call"
    /\ \E c \in HelperCalls : f_name = c[1] /\ f_arg = c[2]
    /\ config = DefaultConfig
    /\ f_ret = <<>>

NextCalls ==
    \/ CallCleanPublisherName /\ UNCHANGED notfn
    \/ CallNormalizeGradeFormat /\ UNCHANGED notfn
    \/ CallExtractGradeFromName /\ UNCHANGED notfn

SpecCalls == InitCalls /\ [][NextCalls]_vars

-----------------------------------------------------------------------------
(* The claims about URLTester, checked under Spec.                         *)

Tasks == 1..Len(futures)
Ran(i) == futures[i].state \in {"done", "collected"}
Collected(i) == futures[i].state = "collected"

\* The probe of task i found the mirror reachable.
Reachable(i) == ~futures[i].tested.raised /\ futures[i].tested.value.success

\* C1: test_multiple_urls returns exactly one decision per input path (no
\* duplicate, no omission), whatever the probes did, and every decision has a
\* non-empty international URL and a non-empty china URL; the call never ends
\* in an exception once the tasks are submitted.
C1_OneDecisionPerPath ==
    /\ pc = "error" => futures = <<>>
    /\ pc \in {"testing", "returned", "done"} =>
          Cardinality(DOMAIN results) = Cardinality({i \in Tasks : Collected(i)})
    /\ pc \in {"returned", "done"} =>
          /\ Cardinality(DOMAIN results) = Len(url_test_data)
          /\ \A k \in 1..Len(url_test_data) :
                /\ url_test_data[k][1] \in DOMAIN results
                /\ results[url_test_data[k][1]].file_path = url_test_data[k][2]
          /\ \A u \in DOMAIN results :
                /\ results[u].urls.international_url # <<>>
                /\ results[u].urls.china_url # <<>>

\* C1 witness: a call over three paths has returned although one task raised and
\* another met a request error.
C1_Witness ==
    /\ pc = "returned"
    /\ Len(url_test_data) = 3
    /\ \E i, j, k \in Tasks :
          /\ futures[i].outcome.raised
          /\ futures[j].head.kind = "RequestException"
          /\ Reachable(k)

\* C2: the decision of a path is a function of the path and its probe outcome:
\* the international URL is the direct-origin URL of the path; the china URL is
\* the CDN-mirror URL exactly when the probe found the mirror reachable, and
\* otherwise (a worker fault included) the fallback-proxy URL, never a URL of the
\* CDN-mirror template.
C2_DecisionFollowsOutcome ==
    \A i \in Tasks : Collected(i) =>
        LET f == futures[i]
            d == results[f.github_url]
            encoded_path == Quote(f.file_path, {"/"})
        IN /\ d.file_path = f.file_path
           /\ d.urls.international_url = raw_base_url \o <<"/">> \o encoded_path
           /\ d.jsdelivr_works = Reachable(i)
           /\ (d.urls.china_url = jsdelivr_template \o encoded_path) <=> Reachable(i)
           /\ ~Reachable(i) =>
                 /\ d.urls.china_url = fallback_template \o encoded_path
                 /\ ~StartsWith(d.urls.china_url, jsdelivr_template)

\* C2 witness: one call with a reachable path, a path answered 404 and a path
\* whose task raised, all three recorded.
C2_Witness ==
    \E i, j, k \in Tasks :
        /\ Collected(i) /\ Reachable(i)
        /\ Collected(j) /\ futures[j].head.kind = "response" /\ futures[j].head.status_code = 404
        /\ Collected(k) /\ futures[k].outcome.raised

\* C3 as amended: test_jsdelivr_link reports success exactly for a response with
\* status 200; for a response with any other status it reports failure with
\* that status and an empty error message; for a RequestException (a transport
\* error, a timeout) it reports failure with status 0 and the text of the
\* exception.
C3_ProbeOutcome ==
    \A i \in Tasks : Ran(i) =>
        LET f == futures[i] IN
        /\ f.head.kind = "response" =>
              f.tested = Return([file_path |-> f.file_path,
                                 success |-> (f.head.status_code = 200),
                                 status_code |-> f.head.status_code,
                                 error_message |-> ""])
        /\ f.head.kind = "RequestException" =>
              f.tested = Return([file_path |-> f.file_path, success |-> FALSE,
                                 status_code |-> 0, error_message |-> f.head.text])

\* C3 witness: probes answered 200, answered 204 and timed out have all run.
C3_Witness ==
    \E i, j, k \in Tasks :
        /\ Ran(i) /\ futures[i].head.kind = "response" /\ futures[i].head.status_code = 200
        /\ Ran(j) /\ futures[j].head.kind = "response" /\ futures[j].head.status_code = 204
        /\ Ran(k) /\ futures[k].head.kind = "RequestException"

\* C3 as claimed: success for a success status, and for every non-success
\* status, transport error or timeout failure with status 0 and a non-empty
\* error text.
C3_AsClaimed ==
    \A i \in Tasks : (Ran(i) /\ ~futures[i].tested.raised) =>
        LET f == futures[i]
            succeeded == f.head.kind = "response" /\ f.head.status_code = 200
        IN IF succeeded THEN f.tested.value.success
           ELSE /\ ~f.tested.value.success
                /\ f.tested.value.status_code = 0
                /\ f.tested.value.error_message # ""

\* C4 as claimed: test_jsdelivr_link never raises; every failure of the
\* existence check is captured in the outcome it returns.
C4_NeverRaises == \A i \in Tasks : Ran(i) => ~futures[i].tested.raised

\* C5: a task that raised is recorded at collection as not working, with status
\* 0, the fallback URL and the text of the fault; every other task is recorded
\* with its own outcome; the collection goes on while tasks are left, and the
\* call returns with every task collected.
C5_FaultContained ==
    /\ \A i \in Tasks : Collected(i) =>
          LET f == futures[i]
              d == results[f.github_url]
          IN IF f.outcome.raised
             THEN /\ ~d.jsdelivr_works
                  /\ d.status_code = 0
                  /\ d.file_path = f.file_path
                  /\ d.urls.china_url = fallback_template \o Quote(f.file_path, {"/"})
                  /\ "error" \in DOMAIN d
                  /\ d.error = f.outcome.error
             ELSE d = ResultEntry(f.file_path, f.outcome.value)
    /\ pc = "error" => futures = <<>>
    /\ pc = "testing" => ENABLED Next
    /\ pc \in {"returned", "done"} => \A i \in Tasks : Collected(i)

\* C5 witness: the call has returned; one task had raised and is recorded with
\* its error text, and a sibling is recorded as reachable.
C5_Witness ==
    /\ pc = "returned"
    /\ \E i, j \in Tasks :
          /\ i # j
          /\ futures[i].outcome.raised
          /\ "error" \in DOMAIN results[futures[i].github_url]
          /\ Reachable(j)
          /\ results[futures[j].github_url].jsdelivr_works

\* The proxy host of the fallback template, as the URL templates name it.
ProxyHost ==
    <<"h", "t", "t", "p", "s", ":", "/", "/", "g", "h", "f", "a", "s", "t", ".", "t", "o", "p">>

\* C6: the fallback-proxy URL of a path is the proxy host, "/" and the
\* direct-origin URL the record of the same path holds; the CDN-mirror URL
\* carries the same encoded path; no "/" of the path is encoded.
C6_FallbackIsProxyOfOrigin ==
    \A k \in 1..Len(textbooks) : \A i \in Tasks :
        (Collected(i) /\ futures[i].file_path = textbooks[k].file_path) =>
            LET e == textbooks[k]
                d == results[futures[i].github_url]
                encoded_path == SubSeq(e.download_url, Len(raw_base_url) + 2, Len(e.download_url))
            IN /\ StartsWith(e.download_url, raw_base_url \o <<"/">>)
               /\ e.international_url = e.download_url
               /\ ~Contains(encoded_path, <<"%", "2", "F">>)
               /\ Len(Split(encoded_path, "/")) = Len(Split(e.file_path, "/"))
               /\ IF d.jsdelivr_works
                  THEN d.urls.china_url = jsdelivr_template \o encoded_path
                  ELSE d.urls.china_url = ProxyHost \o <<"/">> \o e.download_url

\* C6 witness: a path with a "/" and characters that are percent-encoded got the
\* fallback URL.
C6_Witness ==
    \E i \in Tasks :
        /\ Collected(i)
        /\ ~results[futures[i].github_url].jsdelivr_works
        /\ Contains(futures[i].file_path, <<"/">>)
        /\ Contains(results[futures[i].github_url].urls.china_url, <<"%", "2", "0">>)

\* The entry that the outcome of task i calls for, whenever it is collected.
EntryOf(i) ==
    LET f == futures[i] IN
    IF f.outcome.raised
    THEN FallbackEntry(f.github_url, f.file_path, f.outcome.error)
    ELSE ResultEntry(f.file_path, f.outcome.value)

\* The mapping that the collected tasks call for: it is built from the paths and
\* the outcomes alone, the order of completion does not enter.
EntriesOfCollected ==
    LET urls == {futures[i].github_url : i \in {j \in Tasks : Collected(j)}} IN
    [u \in urls |-> EntryOf(CHOOSE i \in Tasks : Collected(i) /\ futures[i].github_url = u)]

\* C20: for given paths and given probe outcomes the mapping of
\* test_multiple_urls is the same under every interleaving of the workers and
\* every order of completion: at every moment it holds, under the origin URL of
\* each collected task, the decision of that task's own outcome; the order of
\* arrival only moves the progress counter.
C20_OrderDoesNotMatter ==
    pc \in {"testing", "returned"} =>
        /\ results = EntriesOfCollected
        /\ completed = Cardinality({i \in Tasks : Collected(i)})

\* C20 witness: a later task is collected, with a decision that differs from the
\* one the earlier task will get, while the earlier task is still running.
C20_Witness ==
    /\ pc = "testing"
    /\ \E i, j \in Tasks :
          /\ i < j
          /\ futures[i].state = "running"
          /\ Collected(j)
          /\ futures[j].github_url \in DOMAIN results
          /\ ~results[futures[j].github_url].jsdelivr_works

\* C21: for every finite set of paths and every pool width of at least one,
\* when every probe ends and the workers are scheduled fairly, test_multiple_urls
\* terminates: the call returns, every submitted task is collected on the way,
\* no task stays pending forever, and the loop waits for submitted tasks only.
C21_ProbingTerminates ==
    /\ [](pc = "testing" => (max_workers >= 1 /\ Len(futures) = Len(url_test_data)))
    /\ (pc = "testing") ~> (pc = "returned" /\ \A i \in Tasks : Collected(i))
    /\ \A i \in 1..MaxFiles :
          (pc = "testing" /\ i \in Tasks /\ futures[i].state = "pending")
              ~> (i \in Tasks /\ Collected(i))

\* C21 witness: a pool of one worker has gone through three tasks, which waited
\* for one another, and the call has returned.
C21_Witness ==
    /\ pc = "returned"
    /\ max_workers = 1
    /\ Len(futures) = 3
    /\ \A i \in Tasks : Collected(i)

\* After the interrupt no task leaves the queue.
NoDispatchAfterInterrupt ==
    pc = "shutdown" =>
        \A i \in Tasks : (futures[i].state = "pending") => (futures'[i].state = "pending")

\* C22: after a KeyboardInterrupt arrives while test_multiple_urls is running,
\* no probe that had not started is started, the results of the probes in
\* flight are discarded, and no output file, partial or whole, is written.
C22_InterruptStopsDispatch ==
    /\ [](message = "Process interrupted by user" =>
             (results = [u \in {} |-> None] /\ output_file = NoFile))
    /\ [](pc = "shutdown" => output_file = NoFile)
    /\ [][NoDispatchAfterInterrupt]_vars

\* C23: in one run of test_multiple_urls each path is probed exactly once: one
\* HEAD request is issued for the path when its task runs, none before and none
\* after, whether the probe succeeded, timed out, failed to connect or returned
\* another status than 200; and one outcome is recorded for the path.
C23_ProbedExactlyOnce ==
    /\ DOMAIN head_calls = {futures[i].file_path : i \in Tasks}
    /\ \A i \in Tasks :
          /\ head_calls[futures[i].file_path] = IF Ran(i) THEN 1 ELSE 0
          /\ \A j \in Tasks : futures[j].file_path = futures[i].file_path => j = i
          /\ (pc \in {"testing", "returned", "done"} /\ Collected(i)) =>
                futures[i].github_url \in DOMAIN results
    /\ pc \in {"testing", "returned", "done"} =>
          Cardinality(DOMAIN results) = Cardinality({i \in Tasks : Collected(i)})

\* C23 witness: the call has returned after a probe that timed out or could not
\* connect and a probe that was answered with another status than 200; each of
\* the two paths has its one request and its one entry.
C23_Witness ==
    /\ pc = "returned"
    /\ \E i, j \in Tasks :
          /\ futures[i].head.kind = "RequestException"
          /\ futures[j].head.kind = "response" /\ futures[j].head.status_code # 200
          /\ head_calls[futures[i].file_path] = 1
          /\ head_calls[futures[j].file_path] = 1
          /\ ~results[futures[i].github_url].jsdelivr_works
          /\ ~results[futures[j].github_url].jsdelivr_works

\* get_repository_tree returned, and what it returned is None or empty.
NoListing == pc # "main" /\ ~TreeTruthy(main_tree_data)

\* The messages get_repository_tree prints when the fetch failed.
FetchFailures ==
    {"Rate limited or access denied", "Error fetching tree", "Exception fetching tree"}

-----------------------------------------------------------------------------
(* The claims about _parse_textbook_metadata, checked under SpecClassify.  *)

Returned == cpc = "return"
Parts == Split(c_path, "/")
NonPractice == c_path # <<>> /\ ~StartsWith(c_path, MathPracticeDir)

\* The level of the path is a configured level, and its showGrades is set.
LevelShowsGrades ==
    /\ GetLevelKeyFromPath(c_path) \in DOMAIN config.levels
    /\ config.levels[GetLevelKeyFromPath(c_path)].showGrades

\* The level of the path is a configured level, and its showGrades is not set.
LevelHidesGrades ==
    /\ GetLevelKeyFromPath(c_path) \in DOMAIN config.levels
    /\ ~config.levels[GetLevelKeyFromPath(c_path)].showGrades

\* The file name carries the title of the special reader series.
HasSpecialTitle == Contains(c_filename, StudentReader)

\* C7: in the record of every call, at the return of every branch and at every
\* step before it, part_number is present if and only if is_split is true.
C7_PartNumberIffSplit ==
    cpc # "idle" => ((c_result.part_number # NoPart) <=> c_result.is_split)

\* C7 witness: a call on a five-segment path returned part 10 of a split file.
C7_Witness ==
    /\ Returned
    /\ Len(Parts) = 5
    /\ c_result.is_split
    /\ c_result.part_number = <<10>>

\* C8 as claimed: for a file name that the file filter accepts as a split file
\* (a pdf extension in any spelling, then "." and digits), the record has
\* is_split true, part_number the number after the last ".", and parsed_name the
\* file name without the extension and the suffix.
C8_SplitNameStripped ==
    (Returned /\ SearchPdfPart(c_filename, TRUE)) =>
        LET at == SearchPartSuffix(c_filename) IN
        /\ c_result.is_split
        /\ c_result.part_number = <<IntOf(SubSeq(c_filename, at + 1, Len(c_filename)))>>
        /\ c_result.parsed_name = SubSeq(c_filename, 1, at - 1 - Len(dot_pdf))

\* The merge of the special rule replaces what the path gave: the file name has
\* the special title, and the path gave no subject, no grade, or a grade equal to
\* the parsed name.
MergeApplies ==
    /\ HasSpecialTitle
    /\ \/ Parts[2] = unknown
       \/ Parts[4] = unknown
       \/ Parts[4] = c_result.parsed_name

\* C9 as amended: for a non-practice path level/subject/publisher/gradeDir/file
\* whose level shows grades, whose subject segment is not empty and whose
\* publisher segment and gradeDir are no leaf-file markers, the level is the
\* first segment; and unless the merge of the special rule applies, the subject
\* is the second segment, the publisher is the third segment normalized, and the
\* grade is gradeDir, whatever the file name is.
C9_PathGivesMetadata ==
    (/\ Returned /\ NonPractice /\ Len(Parts) = 5
     /\ LevelShowsGrades
     /\ Parts[2] # <<>>
     /\ ~IsFileComponent(Parts[3])
     /\ ~IsFileComponent(Parts[4])) =>
        /\ c_result.level = Parts[1]
        /\ ~MergeApplies =>
              /\ c_result.subject = Parts[2]
              /\ c_result.publisher = CleanPublisherName(Parts[3])
              /\ c_result.grade = Parts[4]

\* C9 witness: the grade directory wins over a file name that names another
\* grade, and the combined publisher name is normalized.
C9_Witness ==
    /\ Returned /\ Len(Parts) = 5
    /\ Parts[1] = Xiaoxue
    /\ Contains(Parts[3], <<"-">>)
    /\ Parts[4] = <<"U4E00", "U5E74", "U7EA7">>
    /\ c_filename = <<"4", "U5E74", "U7EA7", "U4E0A", "U518C", ".", "p", "d", "f">>
    /\ c_result.grade = Parts[4]
    /\ c_result.publisher # Parts[3]

\* C9 as claimed: for every non-practice path level/subject/publisher/gradeDir/
\* file (a subject segment that is not empty, a publisher segment that is no
\* leaf-file marker) whose level shows grades and whose gradeDir is no leaf-file
\* marker, the level, the subject, the normalized publisher and the grade are
\* those of the path, whatever the file name is.
C9_AsClaimed ==
    (/\ Returned /\ NonPractice /\ Len(Parts) = 5
     /\ LevelShowsGrades
     /\ Parts[2] # <<>>
     /\ ~IsFileComponent(Parts[3])
     /\ ~IsFileComponent(Parts[4])) =>
        /\ c_result.level = Parts[1]
        /\ c_result.subject = Parts[2]
        /\ c_result.publisher = CleanPublisherName(Parts[3])
        /\ c_result.grade = Parts[4]

\* C10 as amended: for a non-practice path of at least 3 segments whose level
\* hides grades, the grade of the record is 'course', unless the file name has
\* the special title and the subject segment is empty or 'unknown'.
C10_HiddenGradeIsCourse ==
    (/\ Returned /\ NonPractice /\ Len(Parts) >= 3
     /\ LevelHidesGrades
     /\ ~(HasSpecialTitle /\ Parts[2] \in {<<>>, unknown})) =>
        c_result.grade = course

\* C10 witness: a file of the special series that names a primary-school grade
\* lies under the university level and a known subject, and its grade is 'course'.
C10_Witness ==
    /\ Returned /\ Len(Parts) = 5
    /\ Parts[1] = Daxue
    /\ Parts[2] \notin {<<>>, unknown}
    /\ HasSpecialTitle
    /\ c_filename # StudentReader \o dot_pdf
    /\ c_result.grade = course

\* C10 as claimed: for every non-practice path of at least 3 segments whose
\* level hides grades, the grade of the record is 'course', whatever the file
\* name and the other segments are.
C10_AsClaimed ==
    (Returned /\ NonPractice /\ Len(Parts) >= 3 /\ LevelHidesGrades) =>
        c_result.grade = course

\* The six level names of the level mapping.
LevelNames == {Xiaoxue, Chuzhong, Gaozhong, Daxue, Xiaoxue45, Chuzhong45}

\* C14 as claimed: the level of every record that _parse_textbook_metadata
\* returns is one of the six level names or 'unknown'.
C14_LevelIsEnumerated ==
    Returned => c_result.level \in LevelNames \cup {unknown}

\* The fields that default to 'unknown'.
SentinelFields == {"level", "subject", "grade", "semester"}

\* A step of the cascade leaves every resolved field resolved.
StageKeepsResolved ==
    cpc \in {"split", "filename_only", "math_practice", "regular", "merge"} =>
        \A k \in SentinelFields : (c_result[k] # unknown) => (c_result'[k] # unknown)

\* C16: in a call of _parse_textbook_metadata the level, the subject, the grade
\* and the semester are 'unknown' when the cascade starts, and no stage of the
\* cascade (split detection, practice rule, structural parse, merge with the
\* special rule, filename-only fallback) sets one of them back to 'unknown'
\* once it has another value.
C16_NeverDowngraded ==
    /\ [](cpc = "split" => \A k \in SentinelFields : c_result[k] = unknown)
    /\ [][StageKeepsResolved]_vars

\* C16 witness: the merge took the subject of the special rule, which had no
\* grade to give, and the grade of the path is still in the record.
C16_Witness ==
    /\ Returned /\ Len(Parts) = 5
    /\ HasSpecialTitle
    /\ Parts[2] = unknown
    /\ ParseSpecialComplexFilename(c_result.parsed_name, c_path).grade = unknown
    /\ c_result.subject = DaodeYuFazhi
    /\ c_result.grade = Parts[4]
    /\ c_result.grade # unknown

\* What the special rule gives for the call in progress.
SpecialResult == ParseSpecialComplexFilename(c_result.parsed_name, c_path)

\* The merge step runs with a title that the special rule resolves.
MergeStepApplies ==
    /\ cpc = "merge"
    /\ \/ c_result.subject = unknown
       \/ c_result.grade = unknown
       \/ c_result.grade = c_result.parsed_name
    /\ SpecialResult.subject # unknown

\* The merge step keeps a resolved level, takes every other resolved field of the
\* special rule, and leaves the rest of the record alone.
MergeKeepsLevel ==
    MergeStepApplies =>
        /\ (c_result.level # unknown) => (c_result'.level = c_result.level)
        /\ \A k \in {"subject", "grade", "semester", "publisher"} :
              IF SpecialResult[k] \notin {unknown, UnknownPublisher}
              THEN c_result'[k] = SpecialResult[k]
              ELSE c_result'[k] = c_result[k]
        /\ \A k \in DOMAIN c_result \ {"level", "subject", "grade", "semester", "publisher"} :
              c_result'[k] = c_result[k]

\* C17: in the merge after the structural parse, a level resolved from the first
\* path segment is left unchanged even when the special rule infers another
\* level from the title, while the subject, grade, semester and publisher that
\* the special rule resolves to a non-default value overwrite the structural ones.
C17_MergeKeepsPathLevel == [][MergeKeepsLevel]_vars

\* C17 witness: a title with the lower-primary keyword under the senior-high
\* directory: the level is still the directory, the grade is the one of the title.
C17_Witness ==
    /\ Returned /\ Len(Parts) = 5
    /\ Parts[1] = Gaozhong /\ Parts[2] = unknown
    /\ ParseSpecialComplexFilename(c_result.parsed_name, c_path).level = Xiaoxue
    /\ c_result.level = Gaozhong
    /\ c_result.subject = DaodeYuFazhi
    /\ c_result.grade = <<"U4F4E", "U5E74", "U7EA7">>
    /\ c_result.grade # Parts[4]

\* The four level names that the special rule accepts from the path.
CanonicalLevels == {Xiaoxue, Chuzhong, Gaozhong, Daxue}

\* The special rule matches the title, and the title names no level.
TitleWithoutLevel ==
    /\ HasSpecialTitle
    /\ ParseSpecialComplexFilename(c_result.parsed_name, <<>>).subject # unknown
    /\ ParseSpecialComplexFilename(c_result.parsed_name, <<>>).level = unknown

\* The call went through a branch that applies the special rule: the
\* filename-only fallback, or the structural parse of a path without subject,
\* which the merge follows.
SpecialRuleApplied ==
    /\ NonPractice
    /\ \/ Len(Parts) < 3
       \/ Len(Parts) >= 3 /\ Parts[2] = unknown

\* C18: when the special rule matches a title that carries no level keyword and
\* the call has a path whose first segment is one of 小学, 初中, 高中, 大学, the
\* level of the returned record is that first segment, in every branch that
\* applies the special rule, the filename-only fallback of paths with fewer
\* than 3 segments included.
C18_LevelFromPath ==
    (Returned /\ TitleWithoutLevel /\ SpecialRuleApplied /\ Parts[1] \in CanonicalLevels)
        => c_result.level = Parts[1]

\* The path of the call is one that the file filter of process_tree_data accepts.
AcceptedByFilter == IsPdfBlob([type |-> "blob", path |-> c_path])

\* C19: for every document that the file filter accepts and that sits directly
\* under level/subject (the third path segment is the file), the structural
\* parse takes segment 3 as a leaf file: the publisher is the unknown-publisher
\* sentinel, never the file name, and where the level shows grades the grade is
\* the one extracted from the file name.
C19_AcceptedFileIsLeaf ==
    (/\ cpc = "merge" /\ NonPractice /\ AcceptedByFilter
     /\ Len(Parts) = 3 /\ Parts[1] # <<>> /\ Parts[2] # <<>>) =>
        /\ c_result.publisher = UnknownPublisher
        /\ LevelShowsGrades => c_result.grade = GradeFromFilename(c_result.parsed_name)

-----------------------------------------------------------------------------
(* The claims about the helper functions, checked under SpecCalls.         *)

FnReturned(name) == fpc = "return" /\ f_name = name

\* The suffix rule of the publisher normalizer as stated: a trailing 出版社 is
\* replaced by 版, and 版 is appended to a string that ends with neither.
SuffixRule(s) ==
    IF EndsWith(s, Chubanshe) THEN SubSeq(s, 1, Len(s) - Len(Chubanshe)) \o Ban
    ELSE IF EndsWith(s, Ban) THEN s
    ELSE s \o Ban

\* The publisher normalizer as stated.
PrescribedPublisher(raw) ==
    IF raw = <<>> THEN UnknownPublisher
    ELSE IF Contains(raw, <<"-">>)
    THEN LET parts == Split(raw, "-") IN
         IF EndsWith(parts[1], Ban) THEN parts[1] ELSE SuffixRule(parts[Len(parts)])
    ELSE SuffixRule(raw)

\* C11 as claimed: _clean_publisher_name returns what the publisher normalizer
\* prescribes: the unknown publisher for the empty string; with a hyphen the
\* first part if it ends with 版, otherwise the suffix rule applied to the last
\* part; without a hyphen the same suffix rule applied to the whole string.
C11_NormalizerAsPrescribed ==
    FnReturned("_clean_publisher_name") => f_ret = PrescribedPublisher(f_arg)

\* The token is of the digit-based year-grade form: digits, then 年级.
IsDigitYearGrade(t) ==
    LET run == DigitRun(t, 1) IN
    run # <<>> /\ SubSeq(t, Len(run) + 1, Len(t)) = Nianji

\* C12 as claimed: _normalize_grade_format turns every token of the form
\* digits 年级 into the label with the ideographic numeral and returns every
\* other token unchanged, and _extract_grade_from_name never returns a token of
\* the form digits 年级.
C12_NoDigitYearGrade ==
    /\ FnReturned("_normalize_grade_format") =>
          IF IsDigitYearGrade(f_arg)
          THEN /\ Len(f_ret) = 1 + Len(Nianji)
               /\ f_ret[1] \in ChineseNumerals
               /\ EndsWith(f_ret, Nianji)
          ELSE f_ret = f_arg
    /\ FnReturned("_extract_grade_from_name") => ~IsDigitYearGrade(f_ret)

-----------------------------------------------------------------------------
(* The claim about repeated calls, checked under SpecSession.              *)

\* The calls that returned earlier with the arguments of the present call.
SameCallBefore == {m \in memo : m.filename = c_filename /\ m.path = c_path}

\* C13: a call of _parse_textbook_metadata returns the record that every
\* earlier call with the same file name and path returned, whatever other calls
\* came in between, and the configuration of the scanner is never changed.
C13_ClassifyIsPure ==
    /\ config = DefaultConfig
    /\ Returned => \A m \in SameCallBefore : m.result = c_result

\* C13 witness: a file of a level that hides grades is classified again after
\* calls for at least two other files, and the record is the earlier one.
C13_Witness ==
    /\ Returned
    /\ LevelHidesGrades
    /\ SameCallBefore # {}
    /\ Cardinality({m.path : m \in memo}) >= 3
    /\ c_result.grade = course

====
